---- MODULE Spec2Model ----
(***************************************************************************)
(* Model of csa_header: the binary CSA tag-stream decoder CsaHeader.read() *)
(* over a raw byte buffer, with the byte cursor (Unpacker) it drives.      *)
(*                                                                         *)
(* Bytes are integers 0..255 and a buffer is a sequence of bytes, so the   *)
(* decoder reads the fields of a record at the offsets the code reads      *)
(* them.  Python values are records [t, v]: t is the Python type.          *)
(***************************************************************************)
EXTENDS Integers, Sequences, FiniteSets, TLC

\* ------------------------------------------------------------------ bounds

\* Largest number of read() calls made over one buffer (SpecReread).
MaxReads == 2

\* Largest number of tag records of an input header.
MaxTags == 2

\* Largest number of item records of one tag of an input header.
MaxItems == 2

\* Tags in a table of tags with repeated names
MaxOrder == 3

\* ------------------------------------------------- constants of the program

CSA_TYPE_1 == 1

CSA_TYPE_2 == 2

BYTE_ALIGNMENT == 4

\* struct.calcsize of "<2I", "<64si4s3i" and "<4i".
PREFIX_SIZE == 8

TAG_SIZE == 84

ITEM_SIZE == 16

NAME_SIZE == 64

VR_SIZE == 4

TYPE_2_IDENTIFIER == <<83, 86, 49, 48>>

VALID_CHECK_BIT_VALUES == {77, 205}

\* "MrPhoenixProtocol"
MrPhoenixProtocol ==
    <<77, 114, 80, 104, 111, 101, 110, 105, 120, 80, 114, 111, 116, 111, 99, 111, 108>>

ASCII_HEADER_TAGS == {MrPhoenixProtocol}

VR_FL == <<70, 76>>

VR_FD == <<70, 68>>

VR_DS == <<68, 83>>

VR_SS == <<83, 83>>

VR_US == <<85, 83>>

VR_SL == <<83, 76>>

VR_UL == <<85, 76>>

VR_IS == <<73, 83>>

\* A representation code outside VR_TO_TYPE ("LO").
VR_LO == <<76, 79>>

\* VR_TO_TYPE without the entry of "IS"
VR_TO_TYPE_m(vr) ==
    IF vr \in {VR_FL, VR_FD, VR_DS} THEN "float"
    ELSE IF vr \in {VR_SS, VR_US, VR_SL, VR_UL} THEN "int"
    ELSE "none"

\* VR_TO_TYPE: the converter of a representation code, "none" when it has none.
VR_TO_TYPE(vr) ==
    IF vr \in {VR_FL, VR_FD, VR_DS} THEN "float"
    ELSE IF vr \in {VR_SS, VR_US, VR_SL, VR_UL, VR_IS} THEN "int"
    ELSE "none"

\* ------------------------------------------------------------ Python values

None == [t |-> "none", v |-> <<>>]

PyStr(s) == [t |-> "str", v |-> s]

PyInt(n) == [t |-> "int", v |-> <<n>>]

PyFloat(num, den) == [t |-> "float", v |-> <<num, den>>]

PyList(xs) == [t |-> "list", v |-> xs]

\* ------------------------------------------------------------------- bytes

RECURSIVE Zeros(_)
Zeros(n) == IF n <= 0 THEN <<>> ELSE <<0>> \o Zeros(n - 1)

\* bytes.find(NULL): the index (from 1) of the first zero byte, 0 when none.
RECURSIVE FindNull(_, _)
FindNull(s, i) ==
    IF i > Len(s) THEN 0
    ELSE IF s[i] = 0 THEN i
    ELSE FindNull(s, i + 1)

\* strip_to_null: a str up to the first null, or the bytes unchanged.
strip_to_null(string) ==
    LET zero_position == FindNull(string, 1)
    IN  IF zero_position = 0
        THEN [t |-> "bytes", v |-> string]
        ELSE PyStr(SubSeq(string, 1, zero_position - 1))

\* decode_latin1: latin-1 maps byte b to code point b.
decode_latin1(value) ==
    IF value.t = "str" THEN value ELSE PyStr(value.v)

\* Python's buffer[start:end], negative indices counted from the end.
PySlice(buf, start, end) ==
    LET n  == Len(buf)
        lo == IF start < 0 THEN (IF n + start < 0 THEN 0 ELSE n + start)
              ELSE (IF start > n THEN n ELSE start)
        hi == IF end < 0 THEN (IF n + end < 0 THEN 0 ELSE n + end)
              ELSE (IF end > n THEN n ELSE end)
    IN  IF lo < hi THEN SubSeq(buf, lo + 1, hi) ELSE <<>>

\* A little-endian signed 32-bit field ("i").
I32(b) ==
    b[1] + 256 * b[2] + 65536 * b[3]
      + 16777216 * (IF b[4] >= 128 THEN b[4] - 256 ELSE b[4])

\* A little-endian unsigned 32-bit field ("I"); values of 2^31 and more are
\* given as 2^31 - 1 (a count the buffer can never hold either way).
U32(b) ==
    IF b[4] >= 128 THEN 2147483647
    ELSE b[1] + 256 * b[2] + 65536 * b[3] + 16777216 * b[4]

\* struct.pack("<i", n).
LE32(n) ==
    LET m == IF n < 0 THEN (n + 2147483647) + 1 ELSE n
    IN  << m % 256, (m \div 256) % 256, (m \div 65536) % 256,
           ((m \div 16777216) % 128) + (IF n < 0 THEN 128 ELSE 0) >>

\* --------------------------------------------------------------- converters

IsDigit(c) == c \in 48..57

\* str.strip() as int() and float() apply it: the whitespace of latin-1.
IsSpace(c) == c \in {9, 10, 11, 12, 13, 28, 29, 30, 31, 32, 133, 160}

RECURSIVE LStrip(_)
LStrip(s) == IF s # <<>> /\ IsSpace(Head(s)) THEN LStrip(Tail(s)) ELSE s

RECURSIVE RStrip(_)
RStrip(s) ==
    IF s # <<>> /\ IsSpace(s[Len(s)]) THEN RStrip(SubSeq(s, 1, Len(s) - 1)) ELSE s

Strip(s) == RStrip(LStrip(s))

AllDigits(s) == \A i \in 1..Len(s) : IsDigit(s[i])

\* An underscore is accepted only between two digits.
UnderscoresOK(s) ==
    \A i \in 1..Len(s) :
        s[i] = 95 => i > 1 /\ i < Len(s) /\ IsDigit(s[i - 1]) /\ IsDigit(s[i + 1])

NoUnderscores(s) == SelectSeq(s, LAMBDA c : c # 95)

RECURSIVE DigitsValue(_, _)
DigitsValue(s, acc) ==
    IF s = <<>> THEN acc ELSE DigitsValue(Tail(s), 10 * acc + (Head(s) - 48))

RECURSIVE Pow10(_)
Pow10(n) == IF n <= 0 THEN 1 ELSE 10 * Pow10(n - 1)

\* The index of the first element of s in set cs, 0 when none.
RECURSIVE FindIn(_, _, _)
FindIn(s, cs, i) ==
    IF i > Len(s) THEN 0 ELSE IF s[i] \in cs THEN i ELSE FindIn(s, cs, i + 1)

Signed(s) == s # <<>> /\ Head(s) \in {43, 45}

Unsigned(s) == IF Signed(s) THEN Tail(s) ELSE s

Failed == [ok |-> FALSE, val |-> None]

\* int(item_str): optional sign and decimal digits, else ValueError.
int(item_str) ==
    LET s    == Strip(item_str.v)
        body == Unsigned(s)
        d    == NoUnderscores(body)
    IN  IF UnderscoresOK(body) /\ d # <<>> /\ AllDigits(d)
        THEN [ok |-> TRUE,
              val |-> PyInt(IF Head(s) = 45 THEN 0 - DigitsValue(d, 0)
                            ELSE DigitsValue(d, 0))]
        ELSE Failed

ToLower(c) == IF c \in 65..90 THEN c + 32 ELSE c

LowerSeq(s) == [i \in 1..Len(s) |-> ToLower(s[i])]

\* float(item_str): a decimal with optional fraction and exponent, inf,
\* infinity or nan, else ValueError.  The value is <<numerator, denominator>>;
\* inf is <<1, 0>>, -inf <<-1, 0>> and nan <<0, 0>>.
float(item_str) ==
    LET s     == Strip(item_str.v)
        sgn   == IF Signed(s) /\ Head(s) = 45 THEN 0 - 1 ELSE 1
        body  == NoUnderscores(Unsigned(s))
        low   == LowerSeq(body)
        e     == FindIn(body, {69, 101}, 1)
        mant  == IF e = 0 THEN body ELSE SubSeq(body, 1, e - 1)
        expo  == IF e = 0 THEN <<>> ELSE SubSeq(body, e + 1, Len(body))
        expd  == Unsigned(expo)
        dot   == FindIn(mant, {46}, 1)
        ipart == IF dot = 0 THEN mant ELSE SubSeq(mant, 1, dot - 1)
        fpart == IF dot = 0 THEN <<>> ELSE SubSeq(mant, dot + 1, Len(mant))
        ev    == IF e = 0 THEN 0
                 ELSE (IF Signed(expo) /\ Head(expo) = 45 THEN 0 - 1 ELSE 1)
                      * DigitsValue(expd, 0)
        shift == ev - Len(fpart)
    IN  IF low \in {<<105, 110, 102>>, <<105, 110, 102, 105, 110, 105, 116, 121>>}
        THEN [ok |-> TRUE, val |-> PyFloat(sgn, 0)]
        ELSE IF low = <<110, 97, 110>>
        THEN [ok |-> TRUE, val |-> PyFloat(0, 0)]
        ELSE IF /\ UnderscoresOK(Unsigned(s))
                /\ AllDigits(ipart) /\ AllDigits(fpart)
                /\ Len(ipart) + Len(fpart) > 0
                /\ (e # 0 => expd # <<>> /\ AllDigits(expd))
        THEN [ok |-> TRUE,
              val |-> PyFloat(sgn * DigitsValue(ipart \o fpart, 0)
                                 * Pow10(shift), Pow10(0 - shift))]
        ELSE Failed

\* converter(item_str) for the converter VR_TO_TYPE gives; the text is
\* evaluated once, before the converter is applied to it.
Convert(converter, item_str) ==
    CHOOSE r \in { (IF converter = "int" THEN int(text) ELSE float(text)) :
                     text \in {item_str} } : TRUE

\* The item of a non-empty item, None when the converter raises
ConvertItem_m(converter, item_str) ==
    IF converter # "none"
    THEN [ok |-> TRUE, val |-> Convert(converter, item_str).val]
    ELSE [ok |-> TRUE, val |-> item_str]

\* parse_items: the item made of the text of a non-empty item, by the
\* converter when there is one (ok is FALSE when it raises).
ConvertItem(converter, item_str) ==
    IF converter # "none" THEN Convert(converter, item_str)
    ELSE [ok |-> TRUE, val |-> item_str]

\* ----------------------------------------------------------------- Unpacker

\* A read that never leaves the position past the end of the buffer
Unpacker_read_m(buffer, p, n_bytes) ==
    LET end == IF n_bytes = 0 - 1 \/ p + n_bytes > Len(buffer)
               THEN Len(buffer) ELSE p + n_bytes
    IN  [data |-> PySlice(buffer, p, end), pointer |-> end]

\* Unpacker.read(n_bytes) at position p: the bytes handed back and the new
\* position; n_bytes = -1 reads to the end of the buffer.
Unpacker_read(buffer, p, n_bytes) ==
    LET end == IF n_bytes = 0 - 1 THEN Len(buffer) ELSE p + n_bytes
    IN  [data |-> PySlice(buffer, p, end), pointer |-> end]

\* A decode that fills the bytes the buffer lacks with zeros, and fails only
\* at the end of the buffer
Unpacker_unpack_m(buffer, p, size) ==
    IF p >= 0 /\ p < Len(buffer)
    THEN [ok |-> TRUE,
          bytes |-> PySlice(buffer, p, p + size) \o Zeros(p + size - Len(buffer)),
          pointer |-> p + size]
    ELSE [ok |-> FALSE, bytes |-> <<>>, pointer |-> p]

\* Unpacker.unpack(fmt) of a layout of `size` bytes at position p: the bytes
\* of the layout, or a layout error when fewer than `size` bytes remain.
Unpacker_unpack(buffer, p, size) ==
    IF p >= 0 /\ p + size <= Len(buffer)
    THEN [ok |-> TRUE, bytes |-> SubSeq(buffer, p + 1, p + size), pointer |-> p + size]
    ELSE [ok |-> FALSE, bytes |-> <<>>, pointer |-> p]

\* The k-th 4-byte field (from 0) of the bytes of a layout, from byte `at`.
Field(bytes, at) == SubSeq(bytes, at + 1, at + 4)

\* -------------------------------------------------------------- ASCII header

\* The tree is a mapping: the sequence of its <<key, value>> pairs in
\* iteration order; a value is a number, a string, a list or a mapping.
EmptyDict == [t |-> "dict", v |-> <<>>]

\* The pieces of s between the separators sep
RECURSIVE SplitOn(_, _)
SplitOn(s, sep) ==
    LET k == FindIn(s, {sep}, 1)
    IN  IF k = 0 THEN <<s>>
        ELSE <<SubSeq(s, 1, k - 1)>> \o SplitOn(SubSeq(s, k + 1, Len(s)), sep)

IsLetter(c) == c \in 65..90 \/ c \in 97..122 \/ c = 95

\* An identifier segment
IsIdent(s) ==
    /\ s # <<>>
    /\ IsLetter(s[1])
    /\ \A i \in 1..Len(s) : IsLetter(s[i]) \/ IsDigit(s[i])

\* One segment of a path: an identifier, with or without a bracketed
\* non-negative integer subscript
Segment(s) ==
    LET b      == FindIn(s, {91}, 1)
        name   == IF b = 0 THEN s ELSE SubSeq(s, 1, b - 1)
        digits == IF b = 0 THEN <<>> ELSE SubSeq(s, b + 1, Len(s) - 1)
    IN  [ok   |-> /\ IsIdent(name)
                  /\ b # 0 => s[Len(s)] = 93 /\ digits # <<>> /\ AllDigits(digits),
         name |-> name,
         sub  |-> IF b = 0 THEN 0 - 1 ELSE DigitsValue(digits, 0)]

KeyAtom(name) == [op |-> "key", name |-> name, i |-> 0]

IndAtom(i) == [op |-> "ind", name |-> <<>>, i |-> i]

\* The steps of a path: a key for each segment, and an index after the key
\* of a subscripted segment
RECURSIVE Atoms(_)
Atoms(segments) ==
    IF segments = <<>> THEN <<>>
    ELSE LET g == Segment(Head(segments))
         IN  <<KeyAtom(g.name)>>
             \o (IF g.sub >= 0 THEN <<IndAtom(g.sub)>> ELSE <<>>)
             \o Atoms(Tail(segments))

HexDigit(c) == IsDigit(c) \/ c \in 65..70 \/ c \in 97..102

RECURSIVE HexValue(_, _)
HexValue(s, acc) ==
    IF s = <<>> THEN acc
    ELSE HexValue(Tail(s),
                  16 * acc + (IF IsDigit(Head(s)) THEN Head(s) - 48
                              ELSE ToLower(Head(s)) - 87))

\* The delimiter of quoted values the decoder asks for: '""'
Delimiter == <<34, 34>>

\* The scalar a value text stands for: a quoted string without its
\* delimiters, a base-16 integer after "0x", an integer when the text has no
\* decimal point, else a float
parse_value(text) ==
    LET n == Len(text)
    IN  IF n >= 4 /\ SubSeq(text, 1, 2) = Delimiter /\ SubSeq(text, n - 1, n) = Delimiter
        THEN [ok |-> TRUE, val |-> PyStr(SubSeq(text, 3, n - 2))]
        ELSE IF n >= 3 /\ SubSeq(text, 1, 2) = <<48, 120>>
        THEN IF \A i \in 3..n : HexDigit(text[i])
             THEN [ok |-> TRUE, val |-> PyInt(HexValue(SubSeq(text, 3, n), 0))]
             ELSE Failed
        ELSE IF FindIn(text, {46}, 1) = 0 THEN int(PyStr(text))
        ELSE float(PyStr(text))

\* One line: <path>\s*=\s*<value>, or a line that is no assignment
parse_assignment(line) ==
    LET eq       == FindIn(line, {61}, 1)
        path     == Strip(SubSeq(line, 1, eq - 1))
        segments == SplitOn(path, 46)
        value    == parse_value(Strip(SubSeq(line, eq + 1, Len(line))))
    IN  IF eq # 0 /\ (\A k \in 1..Len(segments) : Segment(segments[k]).ok) /\ value.ok
        THEN [ok |-> TRUE, atoms |-> Atoms(segments), value |-> value.val]
        ELSE [ok |-> FALSE, atoms |-> <<>>, value |-> None]

\* A list given one element more than the subscript needs
extend_list_m(xs, i) ==
    IF Len(xs) >= i + 1 THEN xs
    ELSE xs \o [k \in 1..(i + 2 - Len(xs)) |-> None]

\* A list extended with nulls until it has at least i + 1 elements
extend_list(xs, i) ==
    IF Len(xs) >= i + 1 THEN xs
    ELSE xs \o [k \in 1..(i + 1 - Len(xs)) |-> None]

\* A mapping whose key moves to the end when it is assigned again
set_key_m(d, key, value) ==
    SelectSeq(d, LAMBDA e : e[1] # key) \o << <<key, value>> >>

\* d[key] = value on a mapping in insertion order: an existing key keeps its
\* place, a new key goes last
set_key(d, key, value) ==
    IF \E k \in 1..Len(d) : d[k][1] = key
    THEN [k \in 1..Len(d) |-> IF d[k][1] = key THEN <<key, value>> ELSE d[k]]
    ELSE Append(d, <<key, value>>)

\* Walk or create the containers along the path and assign the value at its
\* end: a missing key or a null element is given the container the next step
\* needs (a list before an index, a mapping before a key)
RECURSIVE assign(_, _, _)
assign(node, atoms, value) ==
    IF atoms = <<>> THEN value
    ELSE LET a     == Head(atoms)
             rest  == Tail(atoms)
             made  == IF rest # <<>> /\ Head(rest).op = "ind" THEN PyList(<<>>)
                      ELSE EmptyDict
         IN  IF a.op = "key"
             THEN LET old == IF \E k \in 1..Len(node.v) : node.v[k][1] = a.name
                             THEN node.v[CHOOSE k \in 1..Len(node.v) : node.v[k][1] = a.name][2]
                             ELSE made
                  IN  [t |-> "dict", v |-> set_key(node.v, a.name, assign(old, rest, value))]
             ELSE LET xs  == extend_list(node.v, a.i)
                      old == IF xs[a.i + 1].t = "none" THEN made ELSE xs[a.i + 1]
                  IN  PyList([xs EXCEPT ![a.i + 1] = assign(old, rest, value)])

\* The lines of the text
Lines(text) == SplitOn(text, 10)

\* The tree after the lines: an assignment extends it, any other line
\* (comment, blank, preamble) is skipped
RECURSIVE parse_lines(_, _)
parse_lines(tree, lines) ==
    IF lines = <<>> THEN tree
    ELSE LET parsed == parse_assignment(Head(lines))
         IN  parse_lines(IF parsed.ok
                         THEN assign(tree, parsed.atoms, parsed.value)
                         ELSE tree,
                         Tail(lines))

\* A parser that hands the text back unparsed
parse_ascconv_m(header) ==
    IF header.t = "str" THEN [ok |-> TRUE, val |-> header] ELSE Failed

\* parse_ascconv(header, '""')[0] as CsaAsciiHeader.parse() calls it: the
\* mapping parsed from a text, an error for anything that is not a text.
parse_ascconv(header) ==
    IF header.t = "str"
    THEN [ok |-> TRUE, val |-> parse_lines(EmptyDict, Lines(header.v))]
    ELSE Failed

\* CsaAsciiHeader(header).parse(): bytes are decoded first (ISO-8859-1).
CsaAsciiHeader_parse(header) ==
    parse_ascconv(IF header.t = "bytes" THEN PyStr(header.v) ELSE header)

\* --------------------------------------------------------------- the decoder

VARIABLES
    raw,                \* CsaHeader.raw: the buffer
    header_size,        \* CsaHeader.header_size
    csa_type,           \* CsaHeader._csa_type
    first_tag_n_items,  \* CsaHeader._first_tag_n_items: None or an int
    fresh,              \* the read() running or last run was the first on its instance
    pc,                 \* position of the caller / of read()
    pointer,            \* Unpacker.pointer of the running read()
    n_tags,             \* read(): n_tags
    i_tag,              \* read(): i_tag
    tag,                \* parse_tag(): name, VR, VM and n_items of the tag
    i_item,             \* parse_items(): i_item
    n_values,           \* parse_items(): n_values
    items,              \* parse_items(): items
    result,             \* read(): result, in insertion order
    decoded,            \* the tags parse_tag has returned to the running read()
    error,              \* the exception read() raised
    outcomes,           \* what each finished read() call gave its caller
    max_reads,          \* number of read() calls the caller makes
    step                \* what the last step of the tag or item loop did: op and
                        \* branch, the index i, the position p0 after the record,
                        \* item_len, n_values and len(items) before the step, and
                        \* x (a tag's check-bit, the position after an item's bytes)

\* The state of a caller of CsaHeader.from_dicom
VARIABLES
    dcm_data,           \* from_dicom(): the dataset
    dicom_csa_type,     \* from_dicom(): the csa_type argument
    dicom_returned      \* what the call gave its caller

dicom == << dcm_data, dicom_csa_type, dicom_returned >>

\* The state of a caller of the ASCCONV text parser
VARIABLES
    ascconv_text,       \* the text handed to the parser
    ascconv_line,       \* the number of lines the parser has gone through
    ascconv_assigned,   \* what the parser read in each of these lines
    ascconv_tree        \* the root mapping built so far

ascconv == << ascconv_text, ascconv_line, ascconv_assigned, ascconv_tree >>

\* The state of a caller of an Unpacker
VARIABLES
    buffer,             \* Unpacker.buffer
    unpacker_pointer,   \* Unpacker.pointer
    unpacked            \* the calls made so far: what was asked, from where, what came back

cursor == << buffer, unpacker_pointer, unpacked >>

\* The state of a CsaAsciiHeader instance. A mapping is an object: `id`
\* numbers the mappings in the order they were made, 0 is the {} of __init__.
VARIABLES
    ascii_header,       \* CsaAsciiHeader._header
    ascii_parsed,       \* CsaAsciiHeader._parsed
    ascii_parses,       \* the number of calls of parse() so far
    ascii_returned      \* the mapping each access to `parsed` returned

cached == << ascii_header, ascii_parsed, ascii_parses, ascii_returned >>

\* The variables of the callers that do not run read()
aux == << dicom, ascconv, cursor, cached >>

\* No element at an address of a dataset
Absent == [t |-> "absent", v |-> <<>>]

Dataset(elements) == [t |-> "dataset", v |-> elements]

NotCalled == [op |-> "none", val |-> None]

\* No caller of from_dicom
NoDicom ==
    /\ dcm_data = Dataset(<<>>)
    /\ dicom_csa_type = <<>>
    /\ dicom_returned = NotCalled

\* No caller of the ASCCONV text parser
NoAscconv ==
    /\ ascconv_text = <<>>
    /\ ascconv_line = 0
    /\ ascconv_assigned = <<>>
    /\ ascconv_tree = EmptyDict

\* No caller of an Unpacker
NoCursor ==
    /\ buffer = <<>>
    /\ unpacker_pointer = 0
    /\ unpacked = <<>>

\* The state of the callers in the specifications of read()
\* No CsaAsciiHeader instance in use
NoCached ==
    /\ ascii_header = None
    /\ ascii_parsed = [id |-> 0, value |-> EmptyDict]
    /\ ascii_parses = 0
    /\ ascii_returned = <<>>

NoCaller == NoDicom /\ NoAscconv /\ NoCursor /\ NoCached

vars == << raw, header_size, csa_type, first_tag_n_items, fresh, pc, pointer,
           n_tags, i_tag, tag, i_item, n_values, items, result, decoded,
           error, outcomes, max_reads, step, aux >>

\* The variables of read() and of its instance
reader == << raw, header_size, csa_type, first_tag_n_items, fresh, pc, pointer,
             n_tags, i_tag, tag, i_item, n_values, items, result, decoded,
             error, outcomes, max_reads, step >>

instance == << raw, header_size, csa_type >>

NoError == [kind |-> "none", args |-> <<>>]

INVALID_CHECK_BIT(i, check_bit) == [kind |-> "InvalidCheckBit", args |-> <<i, check_bit>>]

READ_OVERREACH(destination, max_length, p) ==
    [kind |-> "ReadOverreach", args |-> <<destination, max_length, p>>]

TOO_MANY_ITEMS(expected, vm, i) == [kind |-> "TooManyItems", args |-> <<expected, vm, i>>]

\* struct.error of Unpacker.unpack
LayoutError == [kind |-> "struct.error", args |-> <<>>]

\* ValueError of int() / float()
ConversionError == [kind |-> "ValueError", args |-> <<>>]

\* The error of the ASCCONV parser on a value that is no text
AsciiError == [kind |-> "AsciiError", args |-> <<>>]

NoTag == [name |-> PyStr(<<>>), VR |-> PyStr(<<>>), VM |-> 0, n_items |-> 0, value |-> None]

NoStep == [op |-> "none", branch |-> "none", i |-> 0, p0 |-> 0, len |-> 0, nv |-> 0,
           n |-> 0, x |-> 0]

Did(op, branch) == [NoStep EXCEPT !.op = op, !.branch = branch]

\* check_csa_type comparing three bytes only
check_csa_type_m(buf) ==
    IF PySlice(buf, 0, 3) = <<83, 86, 49>> THEN CSA_TYPE_2 ELSE CSA_TYPE_1

\* check_csa_type
check_csa_type(buf) ==
    IF PySlice(buf, 0, 4) = TYPE_2_IDENTIFIER THEN CSA_TYPE_2 ELSE CSA_TYPE_1

is_type_2 == csa_type = CSA_TYPE_2

\* validate_check_bit accepting 77 only
validate_check_bit_m(value) == value = 77

\* validate_check_bit: TRUE when it does not raise
validate_check_bit(value) == value \in VALID_CHECK_BIT_VALUES

\* skip_prefix on a new Unpacker: the position it leaves
skip_prefix ==
    IF is_type_2
    THEN Unpacker_read(raw, Len(TYPE_2_IDENTIFIER), Len(TYPE_2_IDENTIFIER)).pointer
    ELSE 0

\* result[name] = entry that leaves the entry of an existing key as it is
DictSet_m(d, key, entry) ==
    IF \E k \in 1..Len(d) : d[k][1] = key
    THEN d
    ELSE Append(d, <<key, entry>>)

\* result[name] = entry on an insertion-ordered dict: an existing key keeps
\* its place, a new key goes last.
DictSet(d, key, entry) ==
    IF \E k \in 1..Len(d) : d[k][1] = key
    THEN [k \in 1..Len(d) |-> IF d[k][1] = key THEN <<key, entry>> ELSE d[k]]
    ELSE Append(d, <<key, entry>>)

\* The end of parse_items without the test of len(items) > 1
Collapse_m(its) ==
    IF Len(its) = 0 THEN None ELSE PyList(its)

\* The end of parse_items: None, the one item, or the list of items
Collapse(its) ==
    IF Len(its) = 0 THEN None
    ELSE IF Len(its) > 1 THEN PyList(its)
    ELSE its[Len(its)]

\* n_values = n_items, whatever vm is
EffectiveCount_m(vm, n) == n

\* n_values = vm or n_items
EffectiveCount(vm, n) == IF vm # 0 THEN vm ELSE n

\* A reference taken from the tag of index 0
SetReference_m(i, n_items, reference) ==
    IF i = 0 THEN PyInt(n_items) ELSE reference

\* if i_tag == 1: self._first_tag_n_items = n_items
SetReference(i, n_items, reference) ==
    IF i = 1 THEN PyInt(n_items) ELSE reference

\* A reference that starts at 0
InitialReference_m == PyInt(0)

\* __init__: self._first_tag_n_items = None
InitialReference == None

\* _parse_csa1_item_length without the test of a negative length
parse_csa1_item_length_m(p, x0) ==
    IF first_tag_n_items.t = "none"
    THEN [item_len |-> 0, should_break |-> TRUE]
    ELSE LET item_len == x0 - first_tag_n_items.v[1]
         IN  [item_len |-> item_len, should_break |-> p + item_len > header_size]

\* _parse_csa1_item_length at position p
parse_csa1_item_length(p, x0) ==
    IF first_tag_n_items.t = "none"
    THEN [item_len |-> 0, should_break |-> TRUE]
    ELSE LET item_len == x0 - first_tag_n_items.v[1]
         IN  [item_len |-> item_len,
              should_break |-> item_len < 0 \/ p + item_len > header_size]

\* _parse_csa2_item_length without the test of the destination
parse_csa2_item_length_m(p, x1) == [item_len |-> x1, ok |-> TRUE]

\* _parse_csa2_item_length at position p: ok is FALSE when it raises
parse_csa2_item_length(p, x1) ==
    [item_len |-> x1, ok |-> ~ (p + x1 > header_size)]

\* An empty item that leaves the count of values as it is
EndOfValues_m(i, count) == count

\* n_values = i_item: the count of values after an empty item at index i of
\* a tag whose code has a converter
EndOfValues(i, count) == i

\* A placeholder appended at every end of the items
AppendPlaceholder_m(its, i, vm) == Append(its, PyStr(<<>>))

\* if i_item < vm: items.append("")
AppendPlaceholder(its, i, vm) ==
    IF i < vm THEN Append(its, PyStr(<<>>)) ELSE its

\* A loop over the tags that stays at its index
NextIndex_m(i) == i

\* for i_tag in range(n_tags): the index after i
NextIndex(i) == i + 1

\* The padding after an item of item_len bytes
AlignmentPad(item_len) ==
    LET remainder == item_len % BYTE_ALIGNMENT
    IN  IF remainder # 0 THEN BYTE_ALIGNMENT - remainder ELSE 0

\* read() raises: its caller gets the exception and nothing else
Raise(e, st) ==
    /\ pc' = "failed"
    /\ error' = e
    /\ step' = st
    /\ outcomes' = Append(outcomes, [fresh |-> fresh, ok |-> FALSE, result |-> <<>>, error |-> e])

\* read(): Unpacker(raw), skip_prefix, the tag count
Read ==
    /\ pc \in {"idle", "done", "failed"}
    /\ Len(outcomes) < max_reads
    /\ LET u == Unpacker_unpack(raw, skip_prefix, PREFIX_SIZE)
       IN  /\ pointer' = u.pointer
           /\ fresh' = (pc = "idle")
           /\ i_tag' = 0
           /\ result' = <<>>
           /\ tag' = NoTag
           /\ i_item' = 0
           /\ n_values' = 0
           /\ items' = <<>>
           /\ IF u.ok
              THEN /\ n_tags' = U32(Field(u.bytes, 0))
                   /\ pc' = "tag"
                   /\ error' = NoError
                   /\ step' = Did("read", "ok")
                   /\ UNCHANGED outcomes
              ELSE /\ n_tags' = 0
                   /\ Raise(LayoutError, Did("read", "layout"))
    /\ UNCHANGED << instance, first_tag_n_items, max_reads >>
    /\ decoded' = <<>>
    /\ UNCHANGED aux

\* parse_tag up to the call of parse_items, and the head of parse_items
ParseTag ==
    /\ pc = "tag"
    /\ i_tag < n_tags
    /\ LET u         == Unpacker_unpack(raw, pointer, TAG_SIZE)
           name_raw  == SubSeq(u.bytes, 1, NAME_SIZE)
           vm        == I32(Field(u.bytes, NAME_SIZE))
           vr_raw    == SubSeq(u.bytes, NAME_SIZE + 5, NAME_SIZE + 4 + VR_SIZE)
           n_items   == I32(Field(u.bytes, NAME_SIZE + 12))
           check_bit == I32(Field(u.bytes, NAME_SIZE + 16))
           st        == [NoStep EXCEPT !.op = "tag", !.i = i_tag, !.p0 = u.pointer,
                                       !.x = IF u.ok THEN check_bit ELSE 0]
       IN  /\ pointer' = u.pointer
           /\ i_item' = 0
           /\ items' = <<>>
           /\ IF ~ u.ok
              THEN /\ Raise(LayoutError, [st EXCEPT !.branch = "layout"])
                   /\ UNCHANGED << tag, n_values, first_tag_n_items >>
              ELSE IF ~ validate_check_bit(check_bit)
              THEN /\ Raise(INVALID_CHECK_BIT(i_tag, check_bit),
                            [st EXCEPT !.branch = "checkbit"])
                   /\ UNCHANGED << tag, n_values, first_tag_n_items >>
              ELSE /\ tag' = [name |-> decode_latin1(strip_to_null(name_raw)),
                              VR |-> decode_latin1(strip_to_null(vr_raw)),
                              VM |-> vm, n_items |-> n_items, value |-> None]
                   /\ first_tag_n_items' =
                          SetReference(i_tag, n_items, first_tag_n_items)
                   /\ n_values' = EffectiveCount(vm, n_items)
                   /\ pc' = IF n_items > 0 THEN "item" ELSE "finish"
                   /\ step' = [st EXCEPT !.branch = "ok"]
                   /\ UNCHANGED << error, outcomes >>
    /\ UNCHANGED << instance, fresh, n_tags, i_tag, result, max_reads >>
    /\ UNCHANGED decoded
    /\ UNCHANGED aux

\* One iteration of the item loop of parse_items
ParseItem ==
    /\ pc = "item"
    /\ LET u   == Unpacker_unpack(raw, pointer, ITEM_SIZE)
           x0  == I32(Field(u.bytes, 0))
           x1  == I32(Field(u.bytes, 4))
           p0  == u.pointer
           c1  == parse_csa1_item_length(p0, x0)
           c2  == parse_csa2_item_length(p0, x1)
           item_len  == IF csa_type = 1 THEN c1.item_len ELSE c2.item_len
           rd        == Unpacker_read(raw, p0, item_len)
           item_str  == decode_latin1(strip_to_null(rd.data))
           converter == VR_TO_TYPE(tag.VR.v)
           conv      == ConvertItem(converter, item_str)
           st  == [NoStep EXCEPT !.op = "item", !.i = i_item, !.p0 = p0,
                                 !.nv = n_values, !.n = Len(items)]
           stl == [st EXCEPT !.len = item_len]
           continue == /\ i_item' = i_item + 1
                       /\ pc' = IF i_item + 1 < tag.n_items THEN "item" ELSE "finish"
                       /\ UNCHANGED << error, outcomes >>
       IN  IF ~ u.ok
           THEN /\ Raise(LayoutError, [st EXCEPT !.branch = "layout"])
                /\ UNCHANGED << pointer, i_item, n_values, items >>
           ELSE IF csa_type = 1 /\ c1.should_break
           THEN /\ items' = AppendPlaceholder(items, i_item, tag.VM)
                /\ pointer' = p0
                /\ pc' = "finish"
                /\ step' = [stl EXCEPT !.branch = "break"]
                /\ UNCHANGED << i_item, n_values, error, outcomes >>
           ELSE IF csa_type # 1 /\ ~ c2.ok
           THEN /\ Raise(READ_OVERREACH(p0 + item_len, header_size, p0),
                         [stl EXCEPT !.branch = "overreach"])
                /\ pointer' = p0
                /\ UNCHANGED << i_item, n_values, items >>
           ELSE IF i_item >= n_values
           THEN IF item_len # 0
                THEN /\ Raise(TOO_MANY_ITEMS(n_values, tag.VM, i_item),
                              [stl EXCEPT !.branch = "toomany"])
                     /\ pointer' = p0
                     /\ UNCHANGED << i_item, n_values, items >>
                ELSE /\ continue
                     /\ pointer' = p0
                     /\ step' = [stl EXCEPT !.branch = "skip"]
                     /\ UNCHANGED << n_values, items >>
           ELSE IF converter # "none" /\ item_len = 0
           THEN /\ continue
                /\ pointer' = rd.pointer
                /\ n_values' = EndOfValues(i_item, n_values)
                /\ step' = [stl EXCEPT !.branch = "empty"]
                /\ UNCHANGED items
           ELSE IF ~ conv.ok
           THEN /\ Raise(ConversionError, [stl EXCEPT !.branch = "convfail"])
                /\ pointer' = rd.pointer
                /\ UNCHANGED << i_item, n_values, items >>
           ELSE /\ continue
                /\ items' = Append(items, conv.val)
                /\ pointer' = rd.pointer + AlignmentPad(item_len)
                /\ step' = [stl EXCEPT !.branch = "append", !.x = rd.pointer]
                /\ UNCHANGED n_values
    /\ UNCHANGED << instance, first_tag_n_items, fresh, n_tags, i_tag, tag,
                    result, max_reads >>
    /\ UNCHANGED decoded
    /\ UNCHANGED aux

\* The end of parse_items and its return to parse_tag: tag["value"]
EndItems ==
    /\ pc = "finish"
    /\ tag' = [tag EXCEPT !.value = Collapse(items)]
    /\ pc' = "route"
    /\ UNCHANGED << instance, first_tag_n_items, fresh, pointer, n_tags, i_tag,
                    i_item, n_values, items, result, error, outcomes, max_reads,
                    step >>
    /\ UNCHANGED decoded
    /\ UNCHANGED aux

\* The rest of parse_tag and the body of the loop of read(): the ASCII
\* header, result[name] = tag
FinishTag ==
    /\ pc = "route"
    /\ LET ascii == CsaAsciiHeader_parse(tag.value)
           st    == [NoStep EXCEPT !.op = "finish", !.i = i_tag, !.p0 = pointer]
       IN  IF tag.name.v \in ASCII_HEADER_TAGS /\ ~ ascii.ok
           THEN /\ Raise(AsciiError, [st EXCEPT !.branch = "ascii"])
                /\ UNCHANGED << result, decoded, i_tag, tag >>
           ELSE /\ tag' = IF tag.name.v \in ASCII_HEADER_TAGS
                          THEN [tag EXCEPT !.value = ascii.val] ELSE tag
                /\ result' = DictSet(result, tag.name.v,
                                 [VR |-> tag.VR, VM |-> tag.VM, value |-> tag'.value])
                /\ decoded' = Append(decoded, [name |-> tag.name, VR |-> tag.VR,
                                                VM |-> tag.VM, value |-> tag'.value])
                /\ i_tag' = NextIndex(i_tag)
                /\ pc' = "tag"
                /\ step' = [st EXCEPT !.branch = "ok"]
                /\ UNCHANGED << error, outcomes >>
    /\ UNCHANGED << instance, first_tag_n_items, fresh, pointer, n_tags,
                    i_item, n_values, items, max_reads >>
    /\ UNCHANGED aux

\* read() returning result as soon as one tag is decoded
Return_m ==
    /\ pc = "tag"
    /\ i_tag >= n_tags \/ i_tag >= 1
    /\ pc' = "done"
    /\ step' = Did("return", "ok")
    /\ outcomes' = Append(outcomes, [fresh |-> fresh, ok |-> TRUE,
                                     result |-> result, error |-> NoError])
    /\ UNCHANGED << instance, first_tag_n_items, fresh, pointer, n_tags, i_tag, tag,
                    i_item, n_values, items, result, error, max_reads >>
    /\ UNCHANGED decoded
    /\ UNCHANGED aux

\* read(): the loop over the tags is over, return result
Return ==
    /\ pc = "tag"
    /\ i_tag >= n_tags
    /\ pc' = "done"
    /\ step' = Did("return", "ok")
    /\ outcomes' = Append(outcomes, [fresh |-> fresh, ok |-> TRUE,
                                     result |-> result, error |-> NoError])
    /\ UNCHANGED << instance, first_tag_n_items, fresh, pointer, n_tags, i_tag, tag,
                    i_item, n_values, items, result, error, max_reads >>
    /\ UNCHANGED decoded
    /\ UNCHANGED aux

\* CsaHeader(raw): the caller builds another instance over the same bytes
Construct ==
    /\ pc \in {"done", "failed"}
    /\ Len(outcomes) < max_reads
    /\ header_size' = Len(raw)
    /\ first_tag_n_items' = InitialReference
    /\ csa_type' = check_csa_type(raw)
    /\ fresh' = TRUE
    /\ pc' = "idle"
    /\ step' = Did("construct", "ok")
    /\ UNCHANGED << raw, pointer, n_tags, i_tag, tag, i_item, n_values, items,
                    result, error, outcomes, max_reads >>
    /\ UNCHANGED decoded
    /\ UNCHANGED aux

\* ---------------------------------------------------------------- the inputs
\* Headers are built the way the tests build them (struct.pack of the tag count,
\* of each tag record and of each item record, then the item's bytes).

\* An item record: x0, x1 and two unused fields, then the bytes of the value.
\* x1 is the TYPE_2 length; x0 is x1 + 1, the TYPE_1 length when the tag of
\* index 1 declares one item.
ItemOf(len, data) == [x0 |-> len + 1, x1 |-> len, data |-> data]

ItemEmpty == ItemOf(0, <<>>)

\* "10" and two bytes of padding
ItemTen == ItemOf(2, <<49, 48, 0, 0>>)

\* "20" and two nulls, all four counted in the length
ItemTwenty == ItemOf(4, <<50, 48, 0, 0>>)

\* "ABC" and one byte of padding
ItemText == ItemOf(3, <<65, 66, 67, 0>>)

\* A line of preamble and the assignment "b=7", with three bytes of padding
ItemAssign == ItemOf(5, <<65, 10, 98, 61, 55, 0, 0, 0>>)

\* "1.5" and a null, counted in the length
ItemFloat == ItemOf(4, <<49, 46, 53, 0>>)

ItemMinusOne == ItemOf(0 - 1, <<>>)

ItemMinusFour == ItemOf(0 - 4, <<>>)

\* A length far beyond any buffer
ItemHuge == ItemOf(1000, <<>>)

PlainItems == {ItemEmpty, ItemTwenty}

AllItems == {ItemEmpty, ItemTwenty, ItemText, ItemFloat,
             ItemMinusOne, ItemMinusFour, ItemHuge}

\* The item arrays of the inputs: at most MaxItems items, at most one of them
\* outside PlainItems, and that one the first or the second.
ItemArrays ==
    UNION { { a \in [1..k -> AllItems] :
                /\ Cardinality({j \in 1..k : a[j] \notin PlainItems}) <= 1
                /\ \A j \in 3..k : a[j] \in PlainItems }
            : k \in 0..MaxItems }

TagOf(name, vm, vr, n_items, check_bit, its) ==
    [name |-> name, vm |-> vm, vr |-> vr, n_items |-> n_items,
     check_bit |-> check_bit, its |-> its]

NameA == <<65>>

NameB == <<66>>

\* The tags whose item array varies: name "A", any multiplicity up to 2, a
\* code with and a code without a converter.
FocusTags ==
    { TagOf(NameA, vm, vr, Len(its), 77, its) :
        vm \in 0..2, vr \in {VR_IS, VR_LO}, its \in ItemArrays }

\* The tags that stand before or after the varied one.
OtherTags ==
    { TagOf(NameB, 1, VR_LO, 1, 77, <<ItemText>>),
      TagOf(MrPhoenixProtocol, 1, VR_LO, 1, 205, <<ItemAssign>>),
      TagOf(MrPhoenixProtocol, 0, VR_LO, 0, 205, <<>>),
      TagOf(NameB, 1, VR_LO, 1, 77, <<ItemAssign>>),
      TagOf(NameA, 2, VR_IS, 2, 205, <<ItemTwenty, ItemEmpty>>),
      TagOf(NameB, 0, VR_LO, 0, 77, <<>>),
      TagOf(NameB, 0, VR_DS, 2, 77, <<ItemFloat>>),
      TagOf(NameB, 1, VR_IS, 1, 100, <<ItemTen>>) }

\* The items of a tag are all from PlainItems
PlainTag(t) == \A j \in 1..Len(t.its) : t.its[j] \in PlainItems

\* The tag tables built around the tags `focus`: at most MaxTags tags, one of
\* them from `focus` (with items from PlainItems only, in a table of more than
\* two tags) and the others all the same.
TagTables(focus) ==
    {<<>>} \cup
    UNION { { [j \in 1..n |-> IF j = f THEN t ELSE o] :
                f \in 1..n, t \in {t \in focus : n <= 2 \/ PlainTag(t)},
                o \in OtherTags }
            : n \in 1..MaxTags }

RECURSIVE Concat(_)
Concat(ss) == IF ss = <<>> THEN <<>> ELSE Head(ss) \o Concat(Tail(ss))

PackItem(it) == LE32(it.x0) \o LE32(it.x1) \o LE32(0) \o LE32(0) \o it.data

PackTag(t) ==
    t.name \o Zeros(NAME_SIZE - Len(t.name)) \o LE32(t.vm)
      \o t.vr \o Zeros(VR_SIZE - Len(t.vr))
      \o LE32(0) \o LE32(t.n_items) \o LE32(t.check_bit)
      \o Concat([j \in 1..Len(t.its) |-> PackItem(t.its[j])])

\* A header of the given variant declaring n tags; a header of the second
\* variant has the four bytes `reserved` after its marker.
PackHeaderWith(reserved, type2, n, tags) ==
    (IF type2 THEN TYPE_2_IDENTIFIER \o reserved ELSE <<>>)
      \o LE32(n) \o LE32(0)
      \o Concat([j \in 1..Len(tags) |-> PackTag(tags[j])])

PackHeader(type2, n, tags) == PackHeaderWith(<<4, 3, 2, 1>>, type2, n, tags)

\* The buffers read() is run over: every tag table in both variants, declaring
\* the tags it holds (or one more, for the tables of at most one tag); the
\* buffers too short for a tag count; and "SV1" and "SV11" with four nulls,
\* which are not of the second variant.
InputsOver(focus) ==
    { PackHeader(type2, Len(tags), tags) :
        type2 \in BOOLEAN, tags \in TagTables(focus) }
    \cup { PackHeader(type2, Len(tags) + 1, tags) :
        type2 \in BOOLEAN, tags \in {t \in TagTables(focus) : Len(t) <= 1} }
    \cup { <<>>, TYPE_2_IDENTIFIER \o <<1, 0, 0, 0>>,
           <<83, 86, 49>>, <<83, 86, 49, 49, 0, 0, 0, 0>> }

\* The tag at place j of a table with repeated names: one text item, which,
\* with the multiplicity, tells the places apart.
OrderTag(name, j) ==
    TagOf(name, j % 2, VR_LO, 1, 77,
          << IF j % 3 = 1 THEN ItemTwenty ELSE IF j % 3 = 2 THEN ItemText ELSE ItemFloat >>)

\* The tables of at most MaxOrder tags named "A" or "B"
OrderTables ==
    UNION { { [j \in 1..n |-> OrderTag(nm[j], j)] : nm \in [1..n -> {NameA, NameB}] }
            : n \in 0..MaxOrder }

OrderInputs ==
    { PackHeader(type2, Len(tags), tags) : type2 \in BOOLEAN, tags \in OrderTables }

\* The bytes after the marker of the second variant
ReservedFields == {<<4, 3, 2, 1>>, <<9, 9, 9, 9>>}

\* A tag of code "M" (bytes 77 0 0 0, no converter) with one item whose
\* length field is -112: 4 minus the position after the item record of the
\* first tag of a header of the second variant (16 + 84 + 16).
RewindTag == TagOf(NameA, 0, <<77>>, 1, 77, << ItemOf(0 - 112, <<>>) >>)

\* Headers of the second variant that differ in the bytes after the marker
\* only: two tags declared, the first one RewindTag and no second one; and
\* one tag with a number.
ReservedInputs ==
    { PackHeaderWith(r, TRUE, 2, <<RewindTag>>) : r \in ReservedFields }
    \cup { PackHeaderWith(r, TRUE, 1, << TagOf(NameB, 1, VR_IS, 1, 77, <<ItemTen>>) >>) :
              r \in ReservedFields }

Inputs == InputsOver(FocusTags) \cup OrderInputs \cup ReservedInputs

ReaderInit(buffers, reads) ==
    /\ raw \in buffers
    /\ header_size = Len(raw)
    /\ csa_type = check_csa_type(raw)
    /\ first_tag_n_items = InitialReference
    /\ fresh = TRUE
    /\ pc = "idle"
    /\ pointer = 0
    /\ n_tags = 0
    /\ i_tag = 0
    /\ tag = NoTag
    /\ i_item = 0
    /\ n_values = 0
    /\ items = <<>>
    /\ result = <<>>
    /\ decoded = <<>>
    /\ error = NoError
    /\ outcomes = <<>>
    /\ max_reads = reads
    /\ step = NoStep

InitOver(buffers, reads) == ReaderInit(buffers, reads) /\ NoCaller

\* One read() over a new CsaHeader(raw)
Init == InitOver(Inputs, 1)

Next == Read \/ ParseTag \/ ParseItem \/ EndItems \/ FinishTag \/ Return

Spec == Init /\ [][Next]_vars

\* The tags of the buffers of SpecLive: items with a negative length field
\* in the first and in the second place, an empty item before and after a
\* number, a text that is no number, a check-bit that is not valid, a length
\* beyond the buffer, an ASCII header tag without a value.
LiveTags ==
    { TagOf(NameA, 2, VR_LO, 2, 77, <<ItemText, ItemMinusFour>>),
      TagOf(NameA, 0, VR_LO, 2, 77, <<ItemMinusFour, ItemText>>),
      TagOf(NameA, 1, VR_IS, 2, 77, <<ItemTwenty, ItemEmpty>>),
      TagOf(NameB, 2, VR_IS, 2, 205, <<ItemEmpty, ItemTwenty>>),
      TagOf(NameB, 1, VR_IS, 1, 77, <<ItemText>>),
      TagOf(NameB, 1, VR_LO, 1, 100, <<ItemText>>),
      TagOf(NameB, 1, VR_LO, 1, 77, <<ItemHuge>>),
      TagOf(MrPhoenixProtocol, 0, VR_LO, 0, 205, <<>>) }

MaxLiveTags == 2

LiveTables == UNION { [1..n -> LiveTags] : n \in 0..MaxLiveTags }

\* Every table in both variants, declaring the tags it holds (or one more,
\* for the tables of at most one tag), and the buffers of ReservedInputs
LiveInputs ==
    { PackHeader(type2, Len(tags), tags) : type2 \in BOOLEAN, tags \in LiveTables }
    \cup { PackHeader(type2, Len(tags) + 1, tags) :
             type2 \in BOOLEAN, tags \in {t \in LiveTables : Len(t) <= 1} }
    \cup ReservedInputs

InitLive == InitOver(LiveInputs, 1)

\* read() is sequential code: a step that can be taken is taken
SpecLive == InitLive /\ [][Next]_vars /\ WF_vars(Next)

\* The inputs of SpecReread: the tags whose items are all from PlainItems.
RereadInputs == InputsOver({t \in FocusTags : PlainTag(t)})

\* Up to MaxReads read() calls over one buffer, each on the instance of the
\* read before or on a new one.
InitReread == InitOver(RereadInputs, MaxReads)

NextReread == Next \/ Construct

SpecReread == InitReread /\ [][NextReread]_vars

\* ------------------------------------------------------------- from_dicom
\* A dataset is modelled by what from_dicom asks of it: whether it holds an
\* element at an address, and the value of that element.  A dataset is the
\* sequence of its <<address, value>> pairs; a DICOM sequence is a list of
\* datasets; an element of a private address holds whatever its file gave it
\* (a sequence, bytes, text, a number or nothing).

\* CsaHeader.CSA_TAGS: "image" and "series", and their addresses
Image == <<105, 109, 97, 103, 101>>

Series == <<115, 101, 114, 105, 101, 115>>

CSA_TAGS_keys == {Image, Series}

CSA_TAGS(kind) == IF kind = Image THEN <<41, 4112>> ELSE <<41, 4128>>

\* CsaHeader.XA_ENHANCED_TAGS
sequence_tag == <<33, 4350>>

protocol_tag == <<33, 4121>>

\* The address of the keyword SharedFunctionalGroupsSequence
SharedFunctionalGroupsSequence == <<20992, 37417>>

Exc(kind) == [t |-> kind, v |-> <<>>]

IsExc(x) == x.t \in {"ValueError", "TypeError", "AttributeError", "IndexError", "KeyError"}

\* dataset[address].value, Absent when the dataset has no such element
ElementValue(ds, address) ==
    IF \E j \in 1..Len(ds.v) : ds.v[j][1] = address
    THEN ds.v[CHOOSE j \in 1..Len(ds.v) : ds.v[j][1] = address][2]
    ELSE Absent

\* "address in x": a TypeError when x is no container of addresses
Contains(x, address) ==
    CASE x.t = "dataset" -> IF ElementValue(x, address).t # "absent"
                            THEN PyInt(1) ELSE PyInt(0)
      [] x.t = "list"    -> PyInt(0)
      [] OTHER           -> Exc("TypeError")

\* "not x" is false
Truthy(x) ==
    CASE x.t = "none" -> FALSE
      [] x.t = "int"  -> x.v[1] # 0
      [] OTHER        -> x.v # <<>>

\* x[0]
FirstOf(x) ==
    CASE x.t \in {"list", "str", "bytes"} /\ x.v = <<>> -> Exc("IndexError")
      [] x.t = "list"  /\ x.v # <<>> -> x.v[1]
      [] x.t = "bytes" /\ x.v # <<>> -> PyInt(x.v[1])
      [] x.t = "str"   /\ x.v # <<>> -> PyStr(<<x.v[1]>>)
      [] OTHER -> Exc("TypeError")

\* bytes(x)
ToBytes(x) ==
    CASE x.t = "bytes" -> x
      [] x.t = "int"   -> IF x.v[1] < 0 THEN Exc("ValueError")
                          ELSE [t |-> "bytes", v |-> Zeros(x.v[1])]
      [] x.t = "list" /\ x.v = <<>> -> [t |-> "bytes", v |-> <<>>]
      [] OTHER -> Exc("TypeError")

\* The except clause of _extract_xa_enhanced_protocol
XaCaught == {"AttributeError", "IndexError", "KeyError"}

\* _extract_xa_enhanced_protocol(dcm_data): bytes, None, or the exception
\* that leaves the function
extract_xa_enhanced_protocol(ds) ==
    IF ElementValue(ds, SharedFunctionalGroupsSequence).t = "absent" THEN None
    ELSE LET sds         == FirstOf(ElementValue(ds, SharedFunctionalGroupsSequence))
             has_seq     == Contains(sds, sequence_tag)
             mrprot_seq  == ElementValue(sds, sequence_tag)   \* its .value
             mrprot_item == FirstOf(mrprot_seq)
             has_prot    == Contains(mrprot_item, protocol_tag)
             protocol_data == ElementValue(mrprot_item, protocol_tag)
             body ==
                 IF IsExc(sds) THEN sds
                 ELSE IF IsExc(has_seq) THEN has_seq
                 ELSE IF has_seq.v[1] = 0 THEN None
                 ELSE IF ~ Truthy(mrprot_seq) THEN None
                 ELSE IF IsExc(mrprot_item) THEN mrprot_item
                 ELSE IF IsExc(has_prot) THEN has_prot
                 ELSE IF has_prot.v[1] = 0 THEN None
                 ELSE IF protocol_data.t = "none" THEN None
                 ELSE ToBytes(protocol_data)
         IN  IF body.t \in XaCaught THEN None ELSE body

\* _extract_csa_bytes looking at the image address whatever the kind
extract_csa_bytes_m(ds, kind) ==
    LET value == ElementValue(ds, CSA_TAGS(Image))
    IN  IF value.t = "absent" THEN None
        ELSE IF value.t = "none" THEN None
        ELSE ToBytes(value)

\* _extract_csa_bytes(dcm_data, csa_type)
extract_csa_bytes(ds, kind) ==
    LET value == ElementValue(ds, CSA_TAGS(kind))
    IN  IF value.t = "absent" THEN None
        ELSE IF value.t = "none" THEN None
        ELSE ToBytes(value)

\* csa_type.lower() left out
csa_type_lower_m(kind) == kind

\* csa_type.lower()
csa_type_lower(kind) == LowerSeq(kind)

\* from_dicom(dcm_data, csa_type): a CsaHeader, a CsaAsciiHeader, None, or
\* the exception that leaves the call
from_dicom(ds, kind) ==
    IF csa_type_lower(kind) \notin CSA_TAGS_keys THEN Exc("ValueError")
    ELSE LET raw_bytes   == extract_csa_bytes(ds, csa_type_lower(kind))
             xa_protocol == extract_xa_enhanced_protocol(ds)
         IN  IF IsExc(raw_bytes) THEN raw_bytes
             ELSE IF raw_bytes.t # "none" THEN [t |-> "CsaHeader", v |-> raw_bytes.v]
             ELSE IF IsExc(xa_protocol) THEN xa_protocol
             ELSE IF xa_protocol.t # "none"
                  THEN [t |-> "CsaAsciiHeader", v |-> decode_latin1(xa_protocol).v]
             ELSE None

\* CsaHeader.from_dicom(dcm_data, csa_type)
FromDicom ==
    /\ dicom_returned.op = "none"
    /\ dicom_returned' = [op |-> "from_dicom", val |-> from_dicom(dcm_data, dicom_csa_type)]
    /\ UNCHANGED << dcm_data, dicom_csa_type, reader, ascconv, cursor, cached >>

\* CsaHeader._extract_xa_enhanced_protocol(dcm_data)
ExtractXaEnhancedProtocol ==
    /\ dicom_returned.op = "none"
    /\ dicom_returned' = [op |-> "extract_xa", val |-> extract_xa_enhanced_protocol(dcm_data)]
    /\ UNCHANGED << dcm_data, dicom_csa_type, reader, ascconv, cursor, cached >>

\* The values of the elements at the two CSA addresses
ImageBytes == <<83, 86, 49, 48>>

SeriesBytes == <<1, 2>>

ProtocolBytes == <<97, 61, 49>>

PrimaryValues(b) == {Absent, None, [t |-> "bytes", v |-> b], [t |-> "bytes", v |-> <<>>]}

\* The item of the MR protocol sequence: the element at protocol_tag
ProtocolValues ==
    {Absent, None, [t |-> "bytes", v |-> ProtocolBytes], [t |-> "bytes", v |-> <<>>],
     PyStr(ProtocolBytes)}

\* The element at sequence_tag: a sequence of items, or a value of another shape
SequenceValues ==
    {Absent, None, PyList(<<>>), [t |-> "bytes", v |-> SeriesBytes], PyInt(5)}
    \cup {PyList(<< Dataset(IF p.t = "absent" THEN <<>> ELSE << <<protocol_tag, p>> >>) >>) :
              p \in ProtocolValues}

SharedGroupsValues ==
    {Absent, PyList(<<>>)}
    \cup {PyList(<< Dataset(IF q.t = "absent" THEN <<>> ELSE << <<sequence_tag, q>> >>) >>) :
              q \in SequenceValues}

Element(address, value) == IF value.t = "absent" THEN <<>> ELSE << <<address, value>> >>

Datasets ==
    {Dataset(Element(CSA_TAGS(Image), i) \o Element(CSA_TAGS(Series), s)
             \o Element(SharedFunctionalGroupsSequence, x)) :
         i \in PrimaryValues(ImageBytes), s \in PrimaryValues(SeriesBytes),
         x \in SharedGroupsValues}

\* csa_type arguments: "image", "series", "IMAGE", "Image", "SERIES", "SeRiEs",
\* "", "invalid", "both", "imag", "images", "image_header"
Selectors ==
    {Image, Series, <<73, 77, 65, 71, 69>>, <<73, 109, 97, 103, 101>>,
     <<83, 69, 82, 73, 69, 83>>, <<83, 101, 82, 105, 69, 115>>,
     <<>>, <<105, 110, 118, 97, 108, 105, 100>>, <<98, 111, 116, 104>>,
     <<105, 109, 97, 103>>, <<105, 109, 97, 103, 101, 115>>,
     <<105, 109, 97, 103, 101, 95, 104, 101, 97, 100, 101, 114>>}

\* One call on one dataset
InitDicom ==
    /\ ReaderInit({<<>>}, 0)
    /\ NoAscconv
    /\ NoCursor
    /\ NoCached
    /\ dcm_data \in Datasets
    /\ dicom_csa_type \in Selectors
    /\ dicom_returned = NotCalled

NextDicom == FromDicom \/ ExtractXaEnhancedProtocol

SpecDicom == InitDicom /\ [][NextDicom]_vars

\* ------------------------------------------------- the ASCCONV text parser
\* The tree is a mapping: the sequence of its <<key, value>> pairs in
\* iteration order; a value is a number, a string, a list or a mapping.

MaxLines == 3

MaxSubscript == 2

\* The parser going through one more line of the text: an assignment
\* extends the tree, any other line is skipped
ParseLine ==
    /\ ascconv_line < Len(Lines(ascconv_text))
    /\ ascconv_line' = ascconv_line + 1
    /\ LET parsed == parse_assignment(Lines(ascconv_text)[ascconv_line + 1])
       IN  /\ ascconv_assigned' = Append(ascconv_assigned, parsed)
           /\ ascconv_tree' = IF parsed.ok
                               THEN assign(ascconv_tree, parsed.atoms, parsed.value)
                               ELSE ascconv_tree
    /\ UNCHANGED << ascconv_text, reader, dicom, cursor, cached >>

\* The texts: line k assigns to one of the paths a[i].x, a[0].y, b, c[i]
\* (i up to MaxSubscript) a value that names the line, or is a comment.
Digit(k) == <<48 + k>>

PathTexts ==
    {<<97, 91>> \o Digit(i) \o <<93, 46, 120>> : i \in 0..MaxSubscript}
    \cup {<<97, 91, 48, 93, 46, 121>>, <<98>>}
    \cup {<<99, 91>> \o Digit(i) \o <<93>> : i \in 0..MaxSubscript}

\* "1", "0x2", '""3""', "4.5", ...
ValueText(k) ==
    CASE k % 4 = 1 -> Digit(k)
      [] k % 4 = 2 -> <<48, 120>> \o Digit(k)
      [] k % 4 = 3 -> Delimiter \o Digit(k) \o Delimiter
      [] OTHER     -> Digit(k) \o <<46, 53>>

\* The value line k assigns
ValueOf(k) ==
    CASE k % 4 = 1 -> PyInt(k)
      [] k % 4 = 2 -> PyInt(k)
      [] k % 4 = 3 -> PyStr(Digit(k))
      [] OTHER     -> PyFloat(10 * k + 5, 10)

\* "\t = \t" as the tests write it, or a bare "="
Equals(k) == IF k % 2 = 1 THEN <<9, 32, 61, 32, 9>> ELSE <<61>>

\* "# c"
CommentLine == <<35, 32, 99>>

LineTexts(k) == {p \o Equals(k) \o ValueText(k) : p \in PathTexts} \cup {CommentLine}

RECURSIVE TextsOf(_)
TextsOf(n) ==
    IF n = 1 THEN LineTexts(1)
    ELSE {t \o <<10>> \o l : t \in TextsOf(n - 1), l \in LineTexts(n)}

AscconvTexts == {<<>>} \cup UNION {TextsOf(n) : n \in 1..MaxLines}

InitAscconv ==
    /\ ReaderInit({<<>>}, 0)
    /\ NoDicom
    /\ NoCursor
    /\ NoCached
    /\ ascconv_text \in AscconvTexts
    /\ ascconv_line = 0
    /\ ascconv_assigned = <<>>
    /\ ascconv_tree = EmptyDict

NextAscconv == ParseLine

SpecAscconv == InitAscconv /\ [][NextAscconv]_vars

\* ------------------------------------------------- a caller of an Unpacker

MaxBuffer == 5

MaxCalls == 2

\* The sizes of the layouts asked for: "i" and "<2I"
LayoutSizes == {4, PREFIX_SIZE}

\* unpacker.read(n_bytes)
UnpackerRead ==
    /\ Len(unpacked) < MaxCalls
    /\ \E n_bytes \in (0 - 1)..(MaxBuffer + 1) :
           LET r == Unpacker_read(buffer, unpacker_pointer, n_bytes)
           IN  /\ unpacker_pointer' = r.pointer
               /\ unpacked' = Append(unpacked,
                                  [op |-> "read", n |-> n_bytes, p0 |-> unpacker_pointer,
                                   ok |-> TRUE, data |-> r.data])
    /\ UNCHANGED << buffer, reader, dicom, ascconv, cached >>

\* unpacker.unpack(fmt), fmt a layout of `size` bytes
UnpackerUnpack ==
    /\ Len(unpacked) < MaxCalls
    /\ \E size \in LayoutSizes :
           LET u == Unpacker_unpack(buffer, unpacker_pointer, size)
           IN  /\ unpacker_pointer' = u.pointer
               /\ unpacked' = Append(unpacked,
                                  [op |-> "unpack", n |-> size, p0 |-> unpacker_pointer,
                                   ok |-> u.ok, data |-> u.bytes])
    /\ UNCHANGED << buffer, reader, dicom, ascconv, cached >>

\* b"", b"0", b"01", ...
Buffers == {[i \in 1..n |-> 47 + i] : n \in 0..MaxBuffer}

\* Unpacker(buffer, pointer=p)
InitUnpacker ==
    /\ ReaderInit({<<>>}, 0)
    /\ NoDicom
    /\ NoAscconv
    /\ NoCached
    /\ buffer \in Buffers
    /\ unpacker_pointer \in 0..Len(buffer)
    /\ unpacked = <<>>

NextUnpacker == UnpackerRead \/ UnpackerUnpack

SpecUnpacker == InitUnpacker /\ [][NextUnpacker]_vars

\* ------------------------------------------- the cached mapping of a
\* ------------------------------------------- CsaAsciiHeader

MaxAccesses == 3

\* not x, for a mapping x
IsFalsy(d) == d.v = <<>>

\* One access to the property `parsed`: parse() is called, and makes a new
\* mapping, when the mapping kept is falsy; the mapping kept is returned
AccessParsed ==
    /\ Len(ascii_returned) < MaxAccesses
    /\ LET made == [id |-> ascii_parses + 1,
                    value |-> CsaAsciiHeader_parse(ascii_header).val]
           kept == IF IsFalsy(ascii_parsed.value) THEN made ELSE ascii_parsed
       IN  /\ ascii_parsed' = kept
           /\ ascii_parses' = IF IsFalsy(ascii_parsed.value)
                              THEN ascii_parses + 1 ELSE ascii_parses
           /\ ascii_returned' = Append(ascii_returned, kept)
    /\ UNCHANGED << ascii_header, reader, dicom, ascconv, cursor >>

\* The texts of the instances: at most two lines
CachedTexts == {<<>>} \cup TextsOf(1) \cup TextsOf(2)

\* CsaAsciiHeader(text)
InitCached ==
    /\ ReaderInit({<<>>}, 0)
    /\ NoDicom
    /\ NoAscconv
    /\ NoCursor
    /\ \E text \in CachedTexts : ascii_header = PyStr(text)
    /\ ascii_parsed = [id |-> 0, value |-> EmptyDict]
    /\ ascii_parses = 0
    /\ ascii_returned = <<>>

NextCached == AccessParsed

SpecCached == InitCached /\ [][NextCached]_vars

\* ---------------------------------------------------------------------
\* Properties

\* The 32-bit signed integer stored at offset p of the buffer
Int32At(p) == I32(SubSeq(raw, p + 1, p + 4))

\* d[key] of a result mapping
DictGet(d, key) == d[CHOOSE j \in 1..Len(d) : d[j][1] = key][2]

\* C1: decoding the same bytes twice, on the same instance or on a new one,
\* gives the same outcome: every read() fails, or every read() returns the
\* same mapping (same keys in the same order, equal VR, VM and value).
C1_SameOutcome ==
    \A i \in 1..Len(outcomes), j \in 1..Len(outcomes) :
        /\ outcomes[i].ok = outcomes[j].ok
        /\ outcomes[i].result = outcomes[j].result

\* C1: two reads of one instance have returned
C1_TwoReads ==
    /\ Len(outcomes) = 2
    /\ ~ outcomes[2].fresh

\* The item loop has computed the length of the item of index step.i
LengthComputed == step.op = "item" /\ step.branch \notin {"layout", "break", "overreach"}

\* C2: a tag record whose check-bit field is neither 77 nor 205 makes read()
\* fail with an invalid-check-bit error that reports the index of the tag and
\* the value, before any item of the tag is decoded; 77 and 205 never give
\* that error.
C2_CheckBitGate ==
    /\ (step.op = "tag" /\ step.branch # "layout") =>
           LET check_bit == Int32At(step.p0 - 4)
           IN  IF check_bit \notin {77, 205}
               THEN /\ pc = "failed"
                    /\ error = [kind |-> "InvalidCheckBit", args |-> <<i_tag, check_bit>>]
                    /\ ~ outcomes[Len(outcomes)].ok
                    /\ items = <<>>
                    /\ i_item = 0
                    /\ pointer = step.p0
               ELSE pc # "failed" /\ error = NoError
    /\ error.kind = "InvalidCheckBit" => step.op = "tag"

\* C2: the tag of index 1 has the check-bit 100 and read() has failed on it
C2_Rejected ==
    /\ pc = "failed"
    /\ step.op = "tag"
    /\ error = [kind |-> "InvalidCheckBit", args |-> <<1, 100>>]

\* C3: for an item that reaches the multiplicity test at an index at or past
\* the effective count (vm when vm is not 0, else the declared item count),
\* a length other than 0 makes read() fail with a too-many-items error and a
\* length of 0 skips the item, which adds nothing to the value list.  With two
\* non-empty items of 4 bytes, vm = 1 fails and vm = 2 gives the list of the
\* two items.
C3_Multiplicity ==
    LengthComputed =>
        LET effective == IF tag.VM # 0 THEN tag.VM ELSE tag.n_items
            two_items == /\ csa_type = 2
                         /\ tag.n_items = 2
                         /\ step.i = 1
                         /\ step.n = 1
                         /\ step.len = 4
                         /\ Int32At(step.p0 - 32) = 4
        IN  /\ (step.i >= effective /\ step.len # 0) =>
                   /\ pc = "failed"
                   /\ error.kind = "TooManyItems"
                   /\ error.args[2] = tag.VM
                   /\ error.args[3] = step.i
                   /\ Len(items) = step.n
            /\ (step.i >= effective /\ step.len = 0) =>
                   /\ pc # "failed"
                   /\ error = NoError
                   /\ Len(items) = step.n
            /\ (step.i < effective) => error.kind # "TooManyItems" \/ step.nv <= step.i
            /\ (two_items /\ tag.VM = 1) => pc = "failed" /\ error.kind = "TooManyItems"
            /\ (two_items /\ tag.VM = 2 /\ error.kind # "ValueError") =>
                   /\ pc # "failed"
                   /\ Len(items) = 2
                   /\ pc = "route" => tag.value = [t |-> "list", v |-> items]

\* C3: with vm = 1, the second of two items of 4 bytes has raised too-many-items
C3_SecondItemRejected ==
    /\ pc = "failed"
    /\ error.kind = "TooManyItems"
    /\ tag.VM = 1
    /\ step.i = 1
    /\ step.len = 4
    /\ Int32At(step.p0 - 32) = 4
    /\ Len(items) = 1

\* C4: on TYPE_2 an item whose declared length x1 ends past the end of the
\* buffer makes read() fail with a read-overreach error; the test is made
\* before the too-many-items test and the bytes of the item are not read.
C4_Type2Overreach ==
    (csa_type = 2 /\ step.op = "item" /\ step.branch # "layout") =>
        LET x1 == Int32At(step.p0 - 12)
        IN  /\ step.len = x1
            /\ (step.p0 + x1 > header_size) =>
                   /\ pc = "failed"
                   /\ error = [kind |-> "ReadOverreach",
                               args |-> <<step.p0 + x1, header_size, step.p0>>]
                   /\ pointer = step.p0
                   /\ Len(items) = step.n

\* C4: an item past the effective count, of a length other than 0, has raised
\* read-overreach
C4_OverreachPastCount ==
    /\ pc = "failed"
    /\ error.kind = "ReadOverreach"
    /\ step.op = "item"
    /\ tag.VM = 1
    /\ step.i = 1
    /\ step.len # 0

\* C5: on TYPE_1, with the length reference set, an item whose computed
\* length x0 - reference is negative or ends past the end of the buffer raises
\* nothing: the item loop of the tag stops, the position stays after the item
\* record, and one empty-string placeholder is appended exactly when the index
\* of the item is below vm; the tag is then finished.
C5_Type1EndOfItems ==
    (csa_type = 1 /\ step.op = "item" /\ step.branch # "layout"
       /\ first_tag_n_items # None) =>
        LET item_len == Int32At(step.p0 - 16) - first_tag_n_items.v[1]
        IN  (item_len < 0 \/ step.p0 + item_len > header_size) =>
               /\ pc \in {"finish", "route"}
               /\ error = NoError
               /\ pointer = step.p0
               /\ i_item = step.i
               /\ IF step.i < tag.VM
                  THEN items = Append(SubSeq(items, 1, step.n), [t |-> "str", v |-> <<>>])
                  ELSE Len(items) = step.n

\* C5: on TYPE_1 an item of a negative computed length, of an index below vm,
\* has stopped the item loop
C5_NegativeLengthStops ==
    /\ csa_type = 1
    /\ step.op = "item"
    /\ first_tag_n_items # None
    /\ step.len < 0
    /\ step.i < tag.VM
    /\ pc = "finish"

\* The representation codes that have a converter
ConvertedCodes == {VR_FL, VR_FD, VR_DS, VR_SS, VR_US, VR_SL, VR_UL, VR_IS}

\* C6: for a representation code with a converter, a non-empty item within
\* the effective count whose text the converter cannot parse makes read()
\* fail with the conversion error, and no item is appended in its place; a
\* text the converter parses is appended as the converted value.
C6_ConversionFailureFatal ==
    (LengthComputed /\ step.len # 0 /\ step.i < step.nv
       /\ tag.VR.v \in ConvertedCodes) =>
        LET text   == decode_latin1(strip_to_null(
                          Unpacker_read(raw, step.p0, step.len).data))
            parsed == IF tag.VR.v \in {VR_FL, VR_FD, VR_DS}
                      THEN float(text) ELSE int(text)
        IN  IF ~ parsed.ok
            THEN /\ pc = "failed"
                 /\ error = [kind |-> "ValueError", args |-> <<>>]
                 /\ ~ outcomes[Len(outcomes)].ok
                 /\ Len(items) = step.n
            ELSE /\ pc # "failed"
                 /\ Len(items) = step.n + 1
                 /\ items[Len(items)] = parsed.val

\* C6: the text "ABC" of an item of code IS has raised the conversion error
C6_NotANumber ==
    /\ pc = "failed"
    /\ error.kind = "ValueError"
    /\ tag.VR.v = VR_IS
    /\ step.len = 3
    /\ SubSeq(raw, step.p0 + 1, step.p0 + 3) = <<65, 66, 67>>

\* C7: read() returns a mapping only when every declared tag has been decoded
\* without error; when the decode of a tag fails, read() raises and its caller
\* gets no mapping, however many tags were decoded before.
C7_NoPartialResult ==
    LET declared == Int32At(IF csa_type = 2 THEN 8 ELSE 0)
        last     == outcomes[Len(outcomes)]
    IN  /\ pc = "done" =>
               /\ i_tag = declared
               /\ error = NoError
               /\ last.ok
               /\ last.result = result
               /\ Len(result) <= declared
        /\ pc = "failed" =>
               /\ error # NoError
               /\ ~ last.ok
               /\ last.error = error
               /\ last.result = <<>>
        /\ Len(outcomes) > 0 <=> pc \in {"done", "failed"}
        /\ pc \notin {"done", "failed"} => i_tag <= n_tags

\* C7: read() has failed on a tag after it decoded another
C7_FailedAfterOneTag ==
    /\ pc = "failed"
    /\ i_tag = 1
    /\ Len(result) = 1
    /\ outcomes = << [fresh |-> TRUE, ok |-> FALSE, result |-> <<>>, error |-> error] >>

\* C8: the value parse_items returns for a tag is null when no item was
\* appended, the item itself when one was, and the list of the items in the
\* order of their decoding when two or more were; it is never a list of one
\* element.  Items are appended at the end of the list, and the value is the
\* one stored in the result for a tag that is not an ASCII header tag.
C8_ScalarListCollapse ==
    /\ [](/\ pc = "route" =>
                /\ Len(items) = 0 => tag.value = [t |-> "none", v |-> <<>>]
                /\ Len(items) = 1 => tag.value = items[1]
                /\ Len(items) >= 2 => tag.value = [t |-> "list", v |-> items]
                /\ ~ (tag.value.t = "list" /\ Len(tag.value.v) = 1)
          /\ (step.op = "finish" /\ step.branch = "ok"
                /\ tag.name.v \notin ASCII_HEADER_TAGS) =>
                DictGet(result, tag.name.v).value = tag.value)
    /\ [][pc = "item" =>
             \/ items' = items
             \/ /\ Len(items') = Len(items) + 1
                /\ SubSeq(items', 1, Len(items)) = items]_vars
    /\ [][pc = "route" /\ tag.name.v \notin ASCII_HEADER_TAGS => tag' = tag]_vars

\* C8: a tag of exactly one appended item has the item itself as its value
C8_OneItem ==
    /\ pc = "route"
    /\ Len(items) = 1
    /\ tag.value = [t |-> "int", v |-> <<20>>]

\* C9 (as stated): a tag with a single declared item whose length is 0 has
\* the value null, whatever its representation code.
C9_EmptyValueAnyCode ==
    (pc = "route" /\ tag.n_items = 1 /\ LengthComputed /\ step.len = 0) =>
        tag.value = [t |-> "none", v |-> <<>>]

\* C9: a tag with a single declared item whose length is 0 has the value
\* null when its representation code has a converter; with a code that has
\* none, and vm >= 0, the item is appended as it is and the value is the
\* empty string.
C9_EmptyValueWithConverter ==
    (pc = "route" /\ tag.n_items = 1 /\ LengthComputed /\ step.len = 0) =>
        IF tag.VR.v \in ConvertedCodes
        THEN tag.value = [t |-> "none", v |-> <<>>]
        ELSE tag.VM >= 0 => tag.value = [t |-> "str", v |-> <<>>]

\* C9: a tag of code IS with one declared item, of length 0, has its value
C9_EmptyIntegerItem ==
    /\ pc = "route"
    /\ tag.n_items = 1
    /\ tag.VR.v = VR_IS
    /\ LengthComputed
    /\ step.len = 0
    /\ tag.value = [t |-> "none", v |-> <<>>]

\* C10: after an item whose value has been consumed and appended, once the
\* alignment step is done, the position is a multiple of 4.
C10_AlignedAfterItem ==
    (step.op = "item" /\ step.branch = "append") => pointer % 4 = 0

\* C11: an instance built over a buffer whose first 4 bytes are "SV10" is of
\* the second variant, one built over any other buffer (also one of fewer than
\* 4 bytes) is of the first; csa_type and is_type_2 give that same answer
\* before, during and after every read().
C11_VariantDetection ==
    LET sv10 == Len(raw) >= 4 /\ SubSeq(raw, 1, 4) = <<83, 86, 49, 48>>
    IN  /\ csa_type = (IF sv10 THEN 2 ELSE 1)
        /\ is_type_2 <=> sv10

\* C11: two reads of one instance of the second variant have returned
C11_Type2AfterTwoReads ==
    /\ Len(outcomes) = 2
    /\ ~ outcomes[2].fresh
    /\ outcomes[1].ok
    /\ is_type_2

\* The names of the tags decoded by the running read(), in decode order
DecodedNames == [j \in 1..Len(decoded) |-> decoded[j].name.v]

\* The keys of a result mapping, in iteration order
Keys(d) == [j \in 1..Len(d) |-> d[j][1]]

\* The places of `names` that hold the last occurrence of their name
LastPlaces(names) == {j \in 1..Len(names) : \A k \in (j + 1)..Len(names) : names[k] # names[j]}

\* The places of `names` that hold the first occurrence of their name
FirstPlaces(names) == {j \in 1..Len(names) : \A k \in 1..(j - 1) : names[k] # names[j]}

\* The elements of `names` at the places `places`, in the order of the places
RECURSIVE Pick(_, _, _)
Pick(names, places, j) ==
    IF j > Len(names) THEN <<>>
    ELSE (IF j \in places THEN <<names[j]>> ELSE <<>>) \o Pick(names, places, j + 1)

\* C12: the keys of the mapping read() returns iterate in the order of the
\* last occurrences of the distinct names of the tag table: a name that comes
\* again later in the table takes the place of its last occurrence.
C12_LastOccurrenceOrder ==
    pc = "done" =>
        Keys(outcomes[Len(outcomes)].result)
            = Pick(DecodedNames, LastPlaces(DecodedNames), 1)

\* C13: the mapping read() returns has exactly one entry for each distinct
\* name decoded; the entry holds the VR, the VM and the value of the last tag
\* of that name, and has the fields VR, VM and value and no other.
C13_LastWriteWins ==
    pc = "done" =>
        LET returned == outcomes[Len(outcomes)].result
        IN  /\ Len(returned) = Cardinality({DecodedNames[j] : j \in 1..Len(decoded)})
            /\ \A j \in 1..Len(returned) : DOMAIN returned[j][2] = {"VR", "VM", "value"}
            /\ \A j \in LastPlaces(DecodedNames) :
                   /\ Cardinality({k \in 1..Len(returned) :
                                     returned[k][1] = DecodedNames[j]}) = 1
                   /\ DictGet(returned, DecodedNames[j])
                          = [VR |-> decoded[j].VR, VM |-> decoded[j].VM,
                             value |-> decoded[j].value]

\* C13: read() has returned after it decoded the name "A" twice, with
\* different values
C13_NameDecodedTwice ==
    /\ pc = "done"
    /\ Len(decoded) = 3
    /\ DecodedNames = << NameA, NameB, NameA >>
    /\ decoded[1].value # decoded[3].value
    /\ DictGet(result, NameA).value = decoded[3].value

\* ------------------------------------------------- properties of from_dicom

\* The value at the address of the requested kind, Absent when the dataset
\* has no element there
Primary ==
    IF LowerSeq(dicom_csa_type) = Series
    THEN ElementValue(dcm_data, <<41, 4128>>)
    ELSE ElementValue(dcm_data, <<41, 4112>>)

FromDicomReturned ==
    /\ dicom_returned.op = "from_dicom"
    /\ LowerSeq(dicom_csa_type) \in {Image, Series}

\* C14: from_dicom returns a CsaHeader over the bytes at the primary address
\* of the requested kind when that address is present, whatever the
\* XA-Enhanced structure; it returns the XA-Enhanced ASCII header only when
\* the primary address is absent; it returns None when neither is present.
C14_ExtractionPrecedence ==
    FromDicomReturned =>
        /\ Primary.t # "absent" =>
               dicom_returned.val = [t |-> "CsaHeader", v |-> Primary.v]
        /\ dicom_returned.val.t = "CsaAsciiHeader" => Primary.t = "absent"
        /\ (Primary.t = "absent"
            /\ ElementValue(dcm_data, SharedFunctionalGroupsSequence).t = "absent") =>
               dicom_returned.val = None

\* C14, amended: from_dicom returns a CsaHeader over the bytes at the primary
\* address of the requested kind when that address holds a value that is not
\* null, whatever the XA-Enhanced structure; when the primary address is
\* absent or holds null it returns the ASCII header over the XA-Enhanced
\* protocol if the navigation yields one and None if it yields none; an ASCII
\* header is returned in no other case.
C14_NonNullPrimaryFirst ==
    FromDicomReturned =>
        LET xa == extract_xa_enhanced_protocol(dcm_data)
        IN  /\ Primary.t = "bytes" =>
                   dicom_returned.val = [t |-> "CsaHeader", v |-> Primary.v]
            /\ (Primary.t \in {"absent", "none"} /\ xa.t = "bytes") =>
                   dicom_returned.val = [t |-> "CsaAsciiHeader", v |-> xa.v]
            /\ (Primary.t \in {"absent", "none"} /\ xa.t = "none") =>
                   dicom_returned.val = None
            /\ dicom_returned.val.t = "CsaAsciiHeader" =>
                   Primary.t \in {"absent", "none"} /\ xa.t = "bytes"

\* C14: from_dicom returned a CsaHeader for "series" on a dataset that holds
\* bytes at the series address and a whole XA-Enhanced structure
C14_BinaryDespiteXa ==
    /\ FromDicomReturned
    /\ LowerSeq(dicom_csa_type) = Series
    /\ dicom_returned.val = [t |-> "CsaHeader", v |-> SeriesBytes]
    /\ extract_xa_enhanced_protocol(dcm_data).t = "bytes"
    /\ extract_xa_enhanced_protocol(dcm_data).v = ProtocolBytes

\* C15: from_dicom raises the invalid-argument error exactly when the
\* lower-cased selector is neither "image" nor "series", whatever the dataset
\* holds.
C15_SelectorValidation ==
    dicom_returned.op = "from_dicom" =>
        (dicom_returned.val.t = "ValueError"
            <=> LowerSeq(dicom_csa_type) \notin {Image, Series})

\* C15: the selector "images" was rejected on a dataset that holds bytes at
\* both CSA addresses and a whole XA-Enhanced structure
C15_RejectedOnFullDataset ==
    /\ dicom_returned.op = "from_dicom"
    /\ dicom_csa_type = <<105, 109, 97, 103, 101, 115>>
    /\ dicom_returned.val.t = "ValueError"
    /\ ElementValue(dcm_data, <<41, 4112>>).t = "bytes"
    /\ ElementValue(dcm_data, <<41, 4128>>).t = "bytes"
    /\ extract_xa_enhanced_protocol(dcm_data).t = "bytes"

\* The levels of the XA-Enhanced path all exist: the shared-groups sequence,
\* its first item, the sequence at (0021,10FE), its first item, and a value
\* that is not null at (0021,1019)
XaLevels(ds) ==
    LET shared == ElementValue(ds, SharedFunctionalGroupsSequence)
    IN  /\ shared.t = "list" /\ shared.v # <<>>
        /\ shared.v[1].t = "dataset"
        /\ LET seq == ElementValue(shared.v[1], sequence_tag)
           IN  /\ seq.t = "list" /\ seq.v # <<>>
               /\ seq.v[1].t = "dataset"
               /\ ElementValue(seq.v[1], protocol_tag).t \notin {"absent", "none"}

\* C16: _extract_xa_enhanced_protocol never raises; it returns bytes exactly
\* when every level of the path exists, and None otherwise.
C16_XaNavigationNeverRaises ==
    dicom_returned.op = "extract_xa" =>
        /\ ~ IsExc(dicom_returned.val)
        /\ dicom_returned.val.t = "bytes" <=> XaLevels(dcm_data)
        /\ ~ XaLevels(dcm_data) => dicom_returned.val = None

\* ------------------------------------- properties of the ASCCONV text parser

\* The lines the parser has gone through, as it read them
Assigned == ascconv_assigned

\* The lines gone through that assign under the path `at`, in text order
Under(at) ==
    SelectSeq(Assigned, LAMBDA r : /\ r.ok
                                   /\ Len(r.atoms) > Len(at)
                                   /\ SubSeq(r.atoms, 1, Len(at)) = at)

\* The last line gone through that assigns to the path `atoms`
LastLine(atoms) ==
    CHOOSE k \in 1..ascconv_line :
        /\ Assigned[k].ok /\ Assigned[k].atoms = atoms
        /\ \A j \in (k + 1)..ascconv_line : ~ (Assigned[j].ok /\ Assigned[j].atoms = atoms)

Missing == [t |-> "missing", v |-> <<>>]

\* The node of the tree at a path, Missing when the tree has none there
RECURSIVE Lookup(_, _)
Lookup(node, atoms) ==
    IF atoms = <<>> THEN node
    ELSE IF Head(atoms).op = "key"
    THEN IF node.t = "dict" /\ \E k \in 1..Len(node.v) : node.v[k][1] = Head(atoms).name
         THEN Lookup(DictGet(node.v, Head(atoms).name), Tail(atoms))
         ELSE Missing
    ELSE IF node.t = "list" /\ Head(atoms).i < Len(node.v)
         THEN Lookup(node.v[Head(atoms).i + 1], Tail(atoms))
         ELSE Missing

\* Every node of the tree with its path
RECURSIVE NodesAt(_, _)
NodesAt(node, at) ==
    {<<at, node>>}
    \cup (IF node.t = "dict"
          THEN UNION {NodesAt(node.v[k][2], Append(at, KeyAtom(node.v[k][1]))) :
                          k \in 1..Len(node.v)}
          ELSE IF node.t = "list"
          THEN UNION {NodesAt(node.v[i], Append(at, IndAtom(i - 1))) :
                          i \in 1..Len(node.v)}
          ELSE {})

Max(S) == CHOOSE x \in S : \A y \in S : y <= x

\* C17: after any number of lines, every list of the tree has length exactly
\* 1 + the highest subscript assigned for its path, an index never assigned
\* holds null and an assigned index does not, and every assigned path holds
\* the value of the last line that assigned to it.
C17_SparseLists ==
    /\ \A k \in 1..ascconv_line :
           Assigned[k].ok =>
               Lookup(ascconv_tree, Assigned[k].atoms) = ValueOf(LastLine(Assigned[k].atoms))
    /\ \A n \in NodesAt(ascconv_tree, <<>>) :
           n[2].t = "list" =>
               LET under == Under(n[1])
                   subs  == {under[j].atoms[Len(n[1]) + 1].i : j \in 1..Len(under)}
               IN  /\ subs # {}
                   /\ \A j \in 1..Len(under) : under[j].atoms[Len(n[1]) + 1].op = "ind"
                   /\ Len(n[2].v) = 1 + Max(subs)
                   /\ \A i \in 0..(Len(n[2].v) - 1) :
                          n[2].v[i + 1].t = "none" <=> i \notin subs

\* C17: one assignment to a[2].x has given a == [null, null, {x: 1}]
C17_OnlyThirdElement ==
    /\ ascconv_line = 1
    /\ ascconv_tree =
           [t |-> "dict",
            v |-> << << <<97>>,
                        PyList(<< None, None,
                                  [t |-> "dict", v |-> << << <<120>>, PyInt(1) >> >>] >>) >> >>]

\* C18: after any number of lines, the keys of every mapping of the tree
\* iterate in the order in which the text first assigned under them; a later
\* assignment under an existing key does not move it.
C18_FirstAssignmentOrder ==
    \A n \in NodesAt(ascconv_tree, <<>>) :
        n[2].t = "dict" =>
            LET under == Under(n[1])
                names == [j \in 1..Len(under) |-> under[j].atoms[Len(n[1]) + 1].name]
            IN  /\ \A j \in 1..Len(under) : under[j].atoms[Len(n[1]) + 1].op = "key"
                /\ Keys(n[2].v) = Pick(names, FirstPlaces(names), 1)

\* C18: the third line assigned under the key "a" again, after the second
\* line had made the key "b": the keys of the root are still a, b
C18_ReassignedKeyKeepsPlace ==
    /\ ascconv_line = 3
    /\ \A k \in 1..3 : Assigned[k].ok
    /\ Assigned[1].atoms[1].name = <<97>>
    /\ Assigned[2].atoms[1].name = <<98>>
    /\ Assigned[3].atoms[1].name = <<97>>
    /\ Assigned[3].atoms # Assigned[1].atoms
    /\ Keys(ascconv_tree.v) = << <<97>>, <<98>> >>

\* ----------------------------------------------- properties of the Unpacker

\* The position before call k and the position after it
PointerAfter(k) == IF k = Len(unpacked) THEN unpacker_pointer ELSE unpacked[k + 1].p0

Min(a, b) == IF a <= b THEN a ELSE b

\* C19: read(n) with n >= 0 at position p returns buffer[p : min(p + n, len)]
\* and leaves the position at p + n, also past the end; read(-1) returns the
\* bytes from p to the end and leaves the position at len.
C19_CursorRead ==
    \A k \in 1..Len(unpacked) :
        unpacked[k].op = "read" =>
            LET p    == unpacked[k].p0
                n    == unpacked[k].n
                last == IF n >= 0 THEN Min(p + n, Len(buffer)) ELSE Len(buffer)
            IN  /\ unpacked[k].data = [i \in 1..(IF last > p THEN last - p ELSE 0) |-> buffer[p + i]]
                /\ PointerAfter(k) = IF n >= 0 THEN p + n ELSE Len(buffer)

\* C19: a read of more bytes than remain gave the bytes that remain and left
\* the position past the end of the buffer
C19_ReadPastTheEnd ==
    /\ Len(unpacked) = 1
    /\ unpacked[1].op = "read"
    /\ buffer = <<48, 49, 50, 51, 52>>
    /\ unpacked[1].p0 = 3
    /\ unpacked[1].n = 4
    /\ unpacked[1].data = <<51, 52>>
    /\ unpacker_pointer = 7

\* ------------------------------------- the fixed-layout decodes of read()

\* The position of the tag count
CountAt == IF PySlice(raw, 0, 4) = <<83, 86, 49, 48>> THEN 8 ELSE 0

\* The step taken decodes a layout of `size` bytes at position p: it fails
\* the read with the layout error when fewer bytes remain, else the position
\* after the layout is p + size
LayoutDecoded(p, size) ==
    IF p + size > Len(raw)
    THEN /\ pc' = "failed"
         /\ error' = [kind |-> "struct.error", args |-> <<>>]
         /\ ~ outcomes'[Len(outcomes')].ok
    ELSE /\ error' # [kind |-> "struct.error", args |-> <<>>]
         /\ IF step'.op = "read" THEN pointer' = p + size ELSE step'.p0 = p + size

\* The decodes of read() with a tag record of `tag_size` bytes
LayoutDecodes(tag_size) ==
    /\ pc = "idle" /\ step'.op = "read" => LayoutDecoded(CountAt, 8)
    /\ pc = "tag" /\ step'.op = "tag" => LayoutDecoded(pointer, tag_size)
    /\ pc = "item" /\ step'.op = "item" => LayoutDecoded(pointer, 16)

\* A read() that returned had the tag count and the record of every tag,
\* or its cursor ends before the place where that many records end: the
\* length of an item was negative and moved it back
ReturnedHadRoom(tag_size) ==
    pc = "done" => /\ raw # <<>>
                   /\ Len(raw) >= CountAt + 8
                   /\ \/ Len(raw) >= CountAt + 8 + tag_size * n_tags
                      \/ pointer < CountAt + 8 + tag_size * n_tags

Scalar(v) == v.t \in {"none", "str", "int", "float"}

Unparsed(v) ==
    \/ Scalar(v)
    \/ v.t = "list" /\ \A k \in 1..Len(v.v) : Scalar(v.v[k])

\* C21: in every read() that returns, the value of a tag named exactly
\* "MrPhoenixProtocol" is the mapping the ASCCONV parser makes of the text
\* decoded for that tag, and the value of a tag of any other name is never
\* given to the ASCCONV parser: it stays null, a scalar or a list.
C21_PhoenixRouting ==
    /\ [] (pc = "done" =>
             \A j \in 1..Len(result) :
                 IF result[j][1] = MrPhoenixProtocol
                 THEN result[j][2].value.t = "dict"
                 ELSE Unparsed(result[j][2].value))
    /\ [][(pc = "route" /\ pc' = "tag") =>
             IF tag.name.v = MrPhoenixProtocol
             THEN /\ tag.value.t = "str"
                  /\ tag'.value = parse_lines(EmptyDict, Lines(tag.value.v))
                  /\ DictGet(result', MrPhoenixProtocol).value = tag'.value
             ELSE /\ tag'.value = tag.value
                  /\ DictGet(result', tag.name.v).value = tag.value]_vars

\* C21: read() returned the mapping {b: 7} for the tag MrPhoenixProtocol,
\* whose text is a line of preamble and the line "b=7", and next to it the
\* text of a tag of another name
C21_ProtocolParsed ==
    /\ pc = "done"
    /\ Len(result) = 2
    /\ \E j \in 1..2 :
           /\ result[j][1] = MrPhoenixProtocol
           /\ result[j][2].value = [t |-> "dict", v |-> << << <<98>>, PyInt(7) >> >>]
    /\ \E j \in 1..2 :
           /\ result[j][1] # MrPhoenixProtocol
           /\ result[j][2].value.t = "str"

\* ------------------------------- properties of the cached mapping

\* C22: whatever the text of a CsaAsciiHeader, every access to `parsed`
\* after the first returns the very mapping object the first access
\* returned, and the text is parsed at most once.
C22_CachedParse ==
    /\ \A k \in 1..Len(ascii_returned) : ascii_returned[k].id = ascii_returned[1].id
    /\ ascii_parses <= 1

\* The same for the instances whose text holds an assignment
CachedWhenNotEmpty ==
    ascii_returned # <<>> /\ ~ IsFalsy(ascii_returned[1].value) => C22_CachedParse

\* ------------------------------------------------ the prefix of the header

\* The offset of the tag count the variant of the instance gives
PrefixEnd == IF is_type_2 THEN 8 ELSE 0

\* read() decodes the tag count at the offset of the variant: a buffer that
\* ends before it fails the read, else the position is 8 bytes further
PrefixSkipped ==
    [][(pc \in {"idle", "done", "failed"} /\ step'.op = "read") =>
          /\ skip_prefix = PrefixEnd
          /\ IF Len(raw) >= PrefixEnd + 8
             THEN /\ pc' = "tag"
                  /\ n_tags' = U32(SubSeq(raw, PrefixEnd + 1, PrefixEnd + 4))
                  /\ pointer' = PrefixEnd + 8
             ELSE pc' = "failed"]_vars

\* C23: skip_prefix on a new cursor leaves the position at 8 for a header
\* of the second variant and at 0 for one of the first, read() decodes the
\* tag count from there, and the four bytes after the marker never influence
\* the result: no decode of read() starts before the end of the prefix.
C23_PrefixSkip ==
    PrefixSkipped /\ [] (pc # "idle" => pointer >= PrefixEnd)

\* ------------------------------------------------ the empty item of a tag

\* The step taken is an iteration of the item loop in which the length of
\* the item was computed and passed the rule of the variant
LengthPassed ==
    /\ pc = "item"
    /\ step'.op = "item"
    /\ step'.branch \notin {"layout", "break", "overreach"}

\* C24: in a tag whose code has a converter, an item of length zero at an
\* index below the effective count appends nothing and lowers the effective
\* count to its index, so a later item of the tag with a length that is not
\* zero fails the read with too-many-items; with a code without a converter
\* the item of length zero is appended as the empty string and the effective
\* count stays.
C24_EmptyItemEndsValues ==
    /\ [][(LengthPassed /\ step'.len = 0 /\ i_item < n_values) =>
             IF tag.VR.v \in ConvertedCodes
             THEN /\ items' = items
                  /\ n_values' = i_item
                  /\ pc' # "failed"
             ELSE /\ items' = Append(items, PyStr(<<>>))
                  /\ n_values' = n_values
                  /\ pc' # "failed"]_vars
    /\ [][(LengthPassed /\ step'.len # 0 /\ i_item >= n_values) =>
             /\ pc' = "failed"
             /\ error' = TOO_MANY_ITEMS(n_values, tag.VM, i_item)
             /\ items' = items]_vars
    /\ [][(pc = "item" /\ pc' \in {"item", "finish", "failed"}) =>
             n_values' <= n_values]_vars

\* C24: a tag of code IS with the effective count 2 whose first item has the
\* length zero and whose second item has the length 4: the read failed with
\* too-many-items at the second item, the count being 0
C24_AbortAfterEmptyItem ==
    /\ pc = "failed"
    /\ error = TOO_MANY_ITEMS(0, tag.VM, 1)
    /\ step.op = "item"
    /\ step.branch = "toomany"
    /\ step.i = 1
    /\ step.len = 4
    /\ tag.VR.v = VR_IS
    /\ EffectiveCount(tag.VM, tag.n_items) = 2
    /\ n_values = 0
    /\ items = <<>>

\* --------------------------------------------- the reference of TYPE_1

\* C25: _first_tag_n_items is assigned exactly when the tag of index 1 is
\* decoded: to the item count its record declares, after its check-bit
\* passed and before any of its items is decoded; the decode of a tag of any
\* other index leaves it as it is, and the length of every TYPE_1 item of
\* the tags 1..N-1 is x0 minus that value.
C25_Type1Reference ==
    /\ [][(pc = "tag" /\ step'.op = "tag") =>
             IF i_tag = 1 /\ step'.branch = "ok"
             THEN /\ validate_check_bit(Int32At(pointer + NAME_SIZE + 16))
                  /\ first_tag_n_items' = PyInt(Int32At(pointer + NAME_SIZE + 12))
                  /\ i_item' = 0
                  /\ items' = <<>>
             ELSE first_tag_n_items' = first_tag_n_items]_vars
    /\ [][(pc \in {"item", "finish", "route"}) =>
             (first_tag_n_items' = first_tag_n_items)]_vars
    /\ [][(pc = "item" /\ step'.op = "item" /\ step'.branch # "layout"
             /\ csa_type = CSA_TYPE_1 /\ i_tag >= 1) =>
             /\ first_tag_n_items.t = "int"
             /\ step'.len = Int32At(pointer) - first_tag_n_items.v[1]]_vars

\* C25: in a TYPE_1 read the tag of index 1 declared two items, the
\* reference is 2, and the length of its first item, whose x0 is 5, is 3
C25_ReferenceTwo ==
    /\ csa_type = CSA_TYPE_1
    /\ i_tag = 1
    /\ tag.n_items = 2
    /\ first_tag_n_items = PyInt(2)
    /\ step.op = "item"
    /\ step.i = 0
    /\ Int32At(step.p0 - ITEM_SIZE) = 5
    /\ step.len = 3

\* ------------------------------------------------ the single pass of read()

Running == pc \notin {"idle", "done", "failed"}

Terminal == pc \in {"done", "failed"}

\* C26: every read() ends, with a mapping or with an error, on every buffer;
\* it reads the tag count once, decodes the tags in strictly increasing order
\* of index, each at most once and at most n_tags in all, with at most
\* n_items iterations of the item loop for a tag, and never goes back to an
\* earlier tag, also when length fields of items are negative.
C26_TerminatesInOnePass ==
    /\ (~ Terminal) ~> Terminal
    /\ [][Running => n_tags' = n_tags]_vars
    /\ [][(pc = "tag" /\ step'.op = "tag") =>
             /\ step'.i = i_tag
             /\ i_tag = Len(decoded)
             /\ i_tag < n_tags
             /\ i_tag' = i_tag]_vars
    /\ [][Running =>
             \/ i_tag' = i_tag
             \/ pc = "route" /\ i_tag' = i_tag + 1]_vars
    /\ [] (Running => i_tag <= n_tags /\ Len(decoded) = i_tag)
    /\ [][(pc = "item" /\ step'.op = "item") =>
             /\ i_item < tag.n_items
             /\ step'.i = i_item
             /\ \/ i_item' = i_item + 1
                \/ i_item' = i_item /\ pc' \in {"finish", "failed"}]_vars

\* C26: a read has returned after two tags, the second one with an item
\* whose length field is -4
C26_ReturnedAfterNegativeLength ==
    /\ pc = "done"
    /\ csa_type = CSA_TYPE_2
    /\ n_tags = 2
    /\ i_tag = 2
    /\ step.op = "return"
    /\ \E j \in 1..tag.n_items :
           Int32At(Len(raw) - ITEM_SIZE * (tag.n_items - j + 1) + 4) = 0 - 4

\* ------------------------------------------------ the values of a tag

\* The number of values a value holds: 0 for null, the length for a list, 1
\* for anything else
ValueCount(value) ==
    IF value.t = "none" THEN 0
    ELSE IF value.t = "list" THEN Len(value.v)
    ELSE 1

\* parse_items has returned the value of the tag, or read() has stored it
ValueReturned ==
    pc = "route" \/ (step.op = "finish" /\ step.branch = "ok")

\* C27: a tag decoded with n_items >= 0 and vm >= 0 yields at most n_items
\* values and at most as many as its effective count (vm, or n_items when vm
\* is 0), in both variants, the placeholder of TYPE_1 included.
C27_ValueCountBound ==
    (ValueReturned /\ tag.n_items >= 0 /\ tag.VM >= 0) =>
        /\ ValueCount(tag.value) <= tag.n_items
        /\ ValueCount(tag.value) <= EffectiveCount(tag.VM, tag.n_items)

\* C27: a TYPE_1 tag of multiplicity 2 with two declared items has a list of
\* two values, the second one the placeholder
C27_PlaceholderCounted ==
    /\ pc = "route"
    /\ csa_type = CSA_TYPE_1
    /\ step.op = "item"
    /\ step.branch = "break"
    /\ step.i = 1
    /\ tag.VM = 2
    /\ tag.n_items = 2
    /\ tag.value.t = "list"
    /\ Len(tag.value.v) = 2
    /\ tag.value.v[2] = PyStr(<<>>)

\* ------------------------------------------------ the direction of the cursor

\* C28: during read() the position of the cursor never decreases from one
\* decode step to the next, for every buffer, the buffers with negative item
\* lengths included.
C28_MonotoneCursor ==
    [][Running => pointer' >= pointer]_vars

\* ------------------------------------------------ the values of numeric tags

Number(v) == v.t \in {"int", "float"}

\* null, a number, or a list of numbers
Numeric(v) ==
    \/ v.t = "none"
    \/ Number(v)
    \/ v.t = "list" /\ \A k \in 1..Len(v.v) : Number(v.v[k])

\* C29: in every decode that returns, TYPE_1 or TYPE_2, the value of each tag
\* whose representation code has a converter and whose name is not
\* MrPhoenixProtocol is null, a number or a list of numbers; it never is or
\* contains a text.
C29_NumericTagsHoldNumbers ==
    pc = "done" =>
        \A j \in 1..Len(result) :
            (VR_TO_TYPE(result[j][2].VR.v) # "none" /\ result[j][1] # MrPhoenixProtocol)
                => Numeric(result[j][2].value)

\* ------------------------------------------------ the first entry of a TYPE_1 table

\* The tag of index 0 in the first read() of a new TYPE_1 decoder
FirstEntry == csa_type = CSA_TYPE_1 /\ fresh /\ i_tag = 0

\* The position after the tag count, the record of tag 0 and one item record
AfterFirstItem == 8 + TAG_SIZE + ITEM_SIZE

====
